---- MODULE Spec2Model ----
(***************************************************************************)
(* Model of the WoS+ Game State Correlation Engine                         *)
(* (src/src/scripts/wos-plus-main.ts, class GameSpectator, together with   *)
(* the word search of src/src/scripts/wos-words.ts and the save guard of   *)
(* src/src/scripts/db-service.ts).                                         *)
(*                                                                         *)
(* Text is modelled as a sequence of one-character strings, so that        *)
(* length, case folding, joining and splitting are computed as the code    *)
(* computes them.  A JS null / undefined / '' user or message is the empty *)
(* sequence; an optional record is a sequence of length 0 or 1.            *)
(***************************************************************************)
EXTENDS Integers, Sequences, FiniteSets, TLC

(***************************************************************************)
(* Bounds of the model                                                     *)
(***************************************************************************)
\* number of primary-feed events delivered in one behaviour
MaxFeed == 3
\* number of chat messages delivered in one behaviour
MaxChat == 2
\* number of correct guesses suspended in their processing delay at a time
MaxPending == 1

(***************************************************************************)
(* Program constants                                                       *)
(***************************************************************************)
\* handleLevelResults: `stars === 5` is a full clear
ClearStars == 5
\* logMissingWords: default minimum word length when no slots are known
DefaultMinLength == 4
\* findWosWordsByLetters: without a length, only words with length > 3
GlobalMinExclusive == 3
\* saveBoard: board id length range
MinBoardIdLen == 4
MaxBoardIdLen == 20

(***************************************************************************)
(* Characters and case folding (String.prototype.toLowerCase/toUpperCase)  *)
(***************************************************************************)
LowerAlpha == <<"a", "b", "e", "s", "t", "x">>
UpperAlpha == <<"A", "B", "E", "S", "T", "X">>

PosIn(seq, c) == CHOOSE i \in DOMAIN seq : seq[i] = c
InSeq(seq, c) == \E i \in DOMAIN seq : seq[i] = c

toLowerCaseChar(c) == IF InSeq(UpperAlpha, c) THEN LowerAlpha[PosIn(UpperAlpha, c)] ELSE c
toUpperCaseChar(c) == IF InSeq(LowerAlpha, c) THEN UpperAlpha[PosIn(LowerAlpha, c)] ELSE c

toLowerCase(s) == [i \in DOMAIN s |-> toLowerCaseChar(s[i])]
toUpperCase(s) == [i \in DOMAIN s |-> toUpperCaseChar(s[i])]

\* code-unit order used by localeCompare / < on the folded letters of the model
CharRank(c) ==
  IF InSeq(LowerAlpha, c) THEN PosIn(LowerAlpha, c)
  ELSE Len(LowerAlpha) + 1

(***************************************************************************)
(* Sequence helpers (Array.prototype.filter / includes / join / split)     *)
(***************************************************************************)
RECURSIVE FilterOut(_, _)
\* seq.filter(x => x !== c)
FilterOut(seq, c) ==
  IF seq = <<>> THEN <<>>
  ELSE IF Head(seq) = c THEN FilterOut(Tail(seq), c)
       ELSE <<Head(seq)>> \o FilterOut(Tail(seq), c)

RECURSIVE FilterNotIn(_, _)
\* seq.filter(x => !other.includes(x))
FilterNotIn(seq, other) ==
  IF seq = <<>> THEN <<>>
  ELSE IF InSeq(other, Head(seq)) THEN FilterNotIn(Tail(seq), other)
       ELSE <<Head(seq)>> \o FilterNotIn(Tail(seq), other)

\* number of occurrences of c in seq
CountOf(seq, c) == Cardinality({i \in DOMAIN seq : seq[i] = c})

\* String.prototype.replace(c, ''): removes the FIRST occurrence only
ReplaceFirst(seq, c) ==
  IF InSeq(seq, c)
  THEN LET i == CHOOSE k \in DOMAIN seq : seq[k] = c /\ \A j \in 1..(k-1) : seq[j] # c
       IN  SubSeq(seq, 1, i-1) \o SubSeq(seq, i+1, Len(seq))
  ELSE seq

RECURSIVE JoinSpace(_)
\* letters.join(' ')
JoinSpace(seq) ==
  IF seq = <<>> THEN <<>>
  ELSE IF Len(seq) = 1 THEN seq
       ELSE <<Head(seq), " ">> \o JoinSpace(Tail(seq))

\* bigWord.split(' '): the big word is stored as letters joined by single
\* spaces ("T E S T"), so the pieces are its letters
SplitSpace(text) == [i \in 1..((Len(text) + 1) \div 2) |-> text[2 * i - 1]]

\* text.replace(/\s+/g, '')
StripSpaces(text) == FilterOut(text, " ")

endsWithStar(w) == Len(w) > 0 /\ w[Len(w)] = "*"
includesChar(w, c) == InSeq(w, c)

Max(a, b) == IF a > b THEN a ELSE b
Min(a, b) == IF a < b THEN a ELSE b

(***************************************************************************)
(* Vocabulary of the model: words, users, feed payloads                    *)
(***************************************************************************)
w_set   == <<"s", "e", "t">>
w_sets  == <<"s", "e", "t", "s">>
w_test  == <<"t", "e", "s", "t">>
w_tests == <<"t", "e", "s", "t", "s">>
q4      == <<"?", "?", "?", "?">>
q5      == <<"?", "?", "?", "?", "?">>

\* the lexicon served by /api/words (wosDictionary once loaded)
Lexicon == <<w_set, w_sets, w_test, w_tests>>

\* chat messages as emitted by the chat worker: lower-case letters, 4..12 long
ChatWords == {w_sets, w_tests}
\* letters of a correct-guess event: plain, or hidden behind '?'
GuessLetters == {w_test, q4, q5}

\* user names: the feed keeps the case of the name, the chat worker folds it
u_Abe == <<"A", "b", "e">>
u_abe == <<"a", "b", "e">>
u_bea == <<"b", "e", "a">>
u_tex == <<"t", "e", "x">>
FeedUsers == {u_Abe}
ChatUsers == {u_abe, u_bea}

\* a slot as the feed sends it for a word nobody has guessed yet
EmptySlot(i, n) ==
  [letters |-> [k \in 1..n |-> "."], word |-> <<>>, user |-> <<>>,
   hitMax |-> FALSE, index |-> i, length |-> n]
\* a slot as the feed sends it for a word already guessed (game-connected)
FilledSlot(i, w, u) ==
  [letters |-> w, word |-> w, user |-> u, hitMax |-> FALSE, index |-> i, length |-> Len(w)]

\* `record` field of a feed event that carries no record
NoRecord == 0

\* payloads of a level-start event (type 1): all slots empty
StartPayloads ==
  { [level |-> 1, letters |-> <<"t", "e", "s", "t", "?">>,
     slots |-> <<EmptySlot(0, 4), EmptySlot(1, 5)>>],
    [level |-> 2, letters |-> <<"s", "e", "t", "?", "x">>,
     slots |-> <<EmptySlot(0, 5)>>] }
\* payloads of a game-connected event (type 12): level in progress
ConnectPayloads ==
  { [level |-> 1, letters |-> <<"t", "e", "s", "t", "?">>, record |-> 4,
     slots |-> <<FilledSlot(0, w_sets, u_tex), EmptySlot(1, 5)>>],
    [level |-> 1, letters |-> <<>>, record |-> NoRecord, slots |-> <<>>] }

\* stars reported by a level-results event
StarValues == {3, 5}
\* positionIndex of a correct-guess event (-1 is outside every board, 1 is
\* outside the one-slot board, all are outside the empty board)
IndexValues == {-1, 0, 1}
\* letters-revealed payloads: <<hiddenLetters, falseLetters>>
RevealPayloads == { <<<<"s">>, <<"x">>>> }

(***************************************************************************)
(* Correct-word list ordering (updateCorrectWordsDisplayed)                *)
(***************************************************************************)
RECURSIVE localeCompare(_, _)
\* a.localeCompare(b) on folded letter words: -1, 0 or 1
localeCompare(a, b) ==
  IF a = <<>> /\ b = <<>> THEN 0
  ELSE IF a = <<>> THEN -1
  ELSE IF b = <<>> THEN 1
  ELSE IF CharRank(Head(a)) < CharRank(Head(b)) THEN -1
  ELSE IF CharRank(Head(a)) > CharRank(Head(b)) THEN 1
  ELSE localeCompare(Tail(a), Tail(b))

\* deviation: entries of the same text are not ordered by their marker
CompareWords_NoMarker(a, b) ==
  LET aWord == ReplaceFirst(a, "*")
      bWord == ReplaceFirst(b, "*")
      lengthDiff == Len(aWord) - Len(bWord)
  IN  IF lengthDiff # 0 THEN lengthDiff
      ELSE localeCompare(toLowerCase(aWord), toLowerCase(bWord))

\* deviation: within a length the marker decides before the letters
CompareWords_MarkerFirst(a, b) ==
  LET aWord == ReplaceFirst(a, "*")
      bWord == ReplaceFirst(b, "*")
      lengthDiff == Len(aWord) - Len(bWord)
  IN  IF lengthDiff # 0 THEN lengthDiff
      ELSE IF endsWithStar(a) # endsWithStar(b)
           THEN (IF endsWithStar(a) THEN 1 ELSE -1)
           ELSE localeCompare(toLowerCase(aWord), toLowerCase(bWord))

\* the comparator passed to sort()
CompareWords(a, b) ==
  LET aWord == ReplaceFirst(a, "*")
      bWord == ReplaceFirst(b, "*")
      lengthDiff == Len(aWord) - Len(bWord)
      alphabeticalDiff == localeCompare(toLowerCase(aWord), toLowerCase(bWord))
  IN  IF lengthDiff # 0 THEN lengthDiff
      ELSE IF alphabeticalDiff # 0 THEN alphabeticalDiff
      ELSE IF endsWithStar(a) # endsWithStar(b)
           THEN (IF endsWithStar(a) THEN 1 ELSE -1)
           ELSE 0

RECURSIVE InsertStable(_, _)
InsertStable(sorted, w) ==
  IF sorted = <<>> THEN <<w>>
  ELSE IF CompareWords(Head(sorted), w) <= 0
       THEN <<Head(sorted)>> \o InsertStable(Tail(sorted), w)
       ELSE <<w>> \o sorted

RECURSIVE SortWords(_)
\* Array.prototype.sort with CompareWords (a stable sort)
SortWords(list) ==
  IF list = <<>> THEN <<>>
  ELSE InsertStable(SortWords(SubSeq(list, 1, Len(list) - 1)), list[Len(list)])

\* updateCorrectWordsDisplayed: push, then re-sort the whole list
updateCorrectWordsDisplayed(list, word) == SortWords(Append(list, word))

(***************************************************************************)
(* Word search (wos-words.ts)                                              *)
(***************************************************************************)
\* `length` argument left out
NoLength == -1

RECURSIVE CanForm_AnyCount(_, _)
\* deviation: a letter may be used as often as the word needs it
CanForm_AnyCount(word, available) ==
  IF word = <<>> THEN TRUE
  ELSE IF ~InSeq(available, Head(word)) THEN FALSE
       ELSE CanForm_AnyCount(Tail(word), available)

RECURSIVE CanForm(_, _)
\* the per-word filter of findWosWordsByLetters: consume one available
\* letter per character, fail when none is left
CanForm(word, available) ==
  IF word = <<>> THEN TRUE
  ELSE IF ~InSeq(available, Head(word)) THEN FALSE
       ELSE CanForm(Tail(word), ReplaceFirst(available, Head(word)))

RECURSIVE FilterFormable(_, _)
FilterFormable(dict, letters) ==
  IF dict = <<>> THEN <<>>
  ELSE IF CanForm(toLowerCase(Head(dict)), letters)
       THEN <<Head(dict)>> \o FilterFormable(Tail(dict), letters)
       ELSE FilterFormable(Tail(dict), letters)

RECURSIVE FilterByLength_Exact(_, _)
\* deviation: a given length keeps the words of exactly that length
FilterByLength_Exact(words, length) ==
  IF words = <<>> THEN <<>>
  ELSE IF (IF length # NoLength THEN Len(Head(words)) = length
                                ELSE Len(Head(words)) > GlobalMinExclusive)
       THEN <<Head(words)>> \o FilterByLength_Exact(Tail(words), length)
       ELSE FilterByLength_Exact(Tail(words), length)

RECURSIVE FilterByLength(_, _)
\* the length filter of findWosWordsByLetters
FilterByLength(words, length) ==
  IF words = <<>> THEN <<>>
  ELSE IF (IF length # NoLength THEN Len(Head(words)) >= length
                                ELSE Len(Head(words)) > GlobalMinExclusive)
       THEN <<Head(words)>> \o FilterByLength(Tail(words), length)
       ELSE FilterByLength(Tail(words), length)

RECURSIVE DedupeLower(_, _)
\* Array.from(new Set(words.map(toLowerCase)))
DedupeLower(words, seen) ==
  IF words = <<>> THEN <<>>
  ELSE LET w == toLowerCase(Head(words))
       IN  IF w \in seen THEN DedupeLower(Tail(words), seen)
           ELSE <<w>> \o DedupeLower(Tail(words), seen \cup {w})

RECURSIVE InsertByLengthDesc(_, _)
InsertByLengthDesc(sorted, w) ==
  IF sorted = <<>> THEN <<w>>
  ELSE IF Len(Head(sorted)) >= Len(w)
       THEN <<Head(sorted)>> \o InsertByLengthDesc(Tail(sorted), w)
       ELSE <<w>> \o sorted

RECURSIVE SortByLengthDesc(_)
\* sort((a, b) => b.length - a.length), stable
SortByLengthDesc(words) ==
  IF words = <<>> THEN <<>>
  ELSE InsertByLengthDesc(SortByLengthDesc(SubSeq(words, 1, Len(words) - 1)),
                          words[Len(words)])

findWosWordsByLetters(dict, letters, length) ==
  SortByLengthDesc(
    DedupeLower(FilterByLength(FilterFormable(dict, toLowerCase(letters)), length), {}))

RECURSIVE findMissingWordsFromList(_, _)
findMissingWordsFromList(knownWords, dictionaryWords) ==
  IF dictionaryWords = <<>> THEN <<>>
  ELSE IF \E i \in DOMAIN knownWords :
            toLowerCase(knownWords[i]) = toLowerCase(Head(dictionaryWords))
       THEN findMissingWordsFromList(knownWords, Tail(dictionaryWords))
       ELSE <<Head(dictionaryWords)>> \o
            findMissingWordsFromList(knownWords, Tail(dictionaryWords))

RECURSIVE FilterMinLength(_, _)
FilterMinLength(words, minLength) ==
  IF words = <<>> THEN <<>>
  ELSE IF Len(Head(words)) >= minLength
       THEN <<Head(words)>> \o FilterMinLength(Tail(words), minLength)
       ELSE FilterMinLength(Tail(words), minLength)

findAllMissingWords(dict, knownWords, knownLetters, minLength) ==
  FilterMinLength(
    findMissingWordsFromList(knownWords, findWosWordsByLetters(dict, knownLetters, minLength)),
    minLength)

(***************************************************************************)
(* State of one GameSpectator (fields of the class), the page elements it  *)
(* reads back, the module-level lexicon and workers, and the environment   *)
(***************************************************************************)
VARIABLES
  currentLevel,               \* this.currentLevel
  personalBest,               \* this.personalBest
  dailyBest,                  \* this.dailyBest
  dailyClears,                \* this.dailyClears
  currentLevelBigWord,        \* this.currentLevelBigWord ("T E S T" or '')
  currentLevelCorrectWords,   \* this.currentLevelCorrectWords
  currentLevelLetters,        \* this.currentLevelLetters
  currentLevelHiddenLetters,  \* this.currentLevelHiddenLetters
  currentLevelFakeLetters,    \* this.currentLevelFakeLetters
  currentLevelSlots,          \* this.currentLevelSlots
  lastTwitchMessage,          \* this.lastTwitchMessage (<<>> is null)
  twitchChatLog,              \* this.twitchChatLog (Map: user -> entry)
  hiddenLetterEl,             \* innerText of #hidden-letter
  fakeLetterEl,               \* innerText of #fake-letter
  storageKeysSet,             \* pbStorageKey / dailyPbStorageKey / dailyClearsStorageKey are set
  localStorage,               \* stored records of the channel (0: no item)
  wosDictionaryLoaded,        \* wos-words.ts: wosDictionary has been assigned
  twitchOnMessageSet,         \* twitchWorker.onmessage has been assigned
  pendingGuesses,             \* correct guesses suspended in handleCorrectGuess, oldest first
  saveBoardCalls,             \* calls of saveBoard made so far: <<[boardId, slots]>>
  wosSocket,                  \* this.wosSocket (NoHandle is null)
  twitchClient,               \* this.twitchClient (NoHandle is undefined)
  disconnectCalls,            \* number of calls of disconnect / disconnectTwitch
  instances,                  \* number of GameSpectator objects constructed
  wosOnMessage,               \* wosWorker.onmessage: the instance whose handler it is
  twitchOnMessage,            \* twitchWorker.onmessage: the instance whose handler it is (0: none)
  otherInstance,              \* fields of a second GameSpectator
  feedCount,                  \* number of feed events delivered
  chatCount,                  \* number of chat messages delivered (also the clock)
  last,                       \* the operation performed last and what it did
  call                        \* the library function called last, its arguments and its outcome

levelVars ==
  <<currentLevel, currentLevelBigWord, currentLevelCorrectWords, currentLevelLetters,
    currentLevelHiddenLetters, currentLevelFakeLetters, currentLevelSlots,
    hiddenLetterEl, fakeLetterEl>>
chatVars == <<lastTwitchMessage, twitchChatLog>>
recordVars == <<personalBest, dailyBest, dailyClears, storageKeysSet, localStorage>>
envVars == <<wosDictionaryLoaded, twitchOnMessageSet, pendingGuesses, saveBoardCalls>>
connectionVars == <<wosSocket, twitchClient, disconnectCalls>>
instanceVars == <<instances, wosOnMessage, twitchOnMessage, otherInstance>>
vars ==
  <<levelVars, chatVars, recordVars, envVars, connectionVars, instanceVars, feedCount,
    chatCount, last, call>>

\* a connection handle that is null / undefined
NoHandle == "none"

\* contents of localStorage when the page is opened
InitialStorages == { [pb |-> 3, daily |-> 5, clears |-> 1] }

EmptyMap == [u \in {} |-> <<>>]

\* the fields of a GameSpectator after its constructor (level and last chat
\* message only)
NewInstance == [currentLevel |-> 0, lastTwitchMessage |-> <<>>]

Init ==
  /\ currentLevel = 0
  /\ personalBest = 0
  /\ dailyBest = 0
  /\ dailyClears = 0
  /\ currentLevelBigWord = <<>>
  /\ currentLevelCorrectWords = <<>>
  /\ currentLevelLetters = <<>>
  /\ currentLevelHiddenLetters = <<>>
  /\ currentLevelFakeLetters = <<>>
  /\ currentLevelSlots = <<>>
  /\ lastTwitchMessage = <<>>
  /\ twitchChatLog = EmptyMap
  /\ hiddenLetterEl = <<>>
  /\ fakeLetterEl = <<>>
  /\ storageKeysSet = FALSE
  /\ localStorage \in InitialStorages
  /\ wosDictionaryLoaded = FALSE
  /\ twitchOnMessageSet = FALSE
  /\ pendingGuesses = <<>>
  /\ saveBoardCalls = <<>>
  /\ wosSocket = NoHandle
  /\ twitchClient = NoHandle
  /\ disconnectCalls = 0
  /\ instances = 1
  /\ wosOnMessage = 1
  /\ twitchOnMessage = 0
  /\ otherInstance = NewInstance
  /\ feedCount = 0
  /\ chatCount = 0
  /\ last = [op |-> "none"]
  /\ call = [op |-> "none"]

(***************************************************************************)
(* Channel records                                                         *)
(***************************************************************************)
\* updateChannelAllTimeRecord: the new personalBest
updateChannelAllTimeRecord(pb, record) == IF record > pb THEN record ELSE pb

\* updateChannelDailyRecord: the new dailyBest
updateChannelDailyRecord(daily, level) == IF level > daily THEN level ELSE daily

\* recordBoardClear: the new dailyClears
recordBoardClear(clears) == clears + 1

\* localStorage.setItem of the three records, guarded by `if (key)`; an
\* item is written only when its record changed
StorageAfter(pb, daily, clears) ==
  IF storageKeysSet
  THEN [pb     |-> IF pb # personalBest THEN pb ELSE localStorage.pb,
        daily  |-> IF daily # dailyBest THEN daily ELSE localStorage.daily,
        clears |-> IF clears # dailyClears THEN clears ELSE localStorage.clears]
  ELSE localStorage

\* wosWorker.onmessage prologue: `if (record && typeof record === 'number')`
RecordPrologue(record) ==
  IF record # NoRecord THEN updateChannelAllTimeRecord(personalBest, record) ELSE personalBest

\* every message of the feed worker runs wosWorker.onmessage, whose body
\* (re)assigns twitchWorker.onmessage
FeedDelivered ==
  /\ feedCount < MaxFeed
  /\ feedCount' = feedCount + 1
  /\ twitchOnMessageSet' = TRUE
  /\ twitchOnMessage' = wosOnMessage
  /\ UNCHANGED <<connectionVars, instances, wosOnMessage, otherInstance, call>>

\* connectToTwitch -> loadChannelRecords; the page connects before the
\* streams deliver anything
ConnectToTwitch ==
  /\ ~storageKeysSet
  /\ feedCount = 0 /\ chatCount = 0
  /\ storageKeysSet' = TRUE
  /\ personalBest' = localStorage.pb
  /\ dailyBest' = localStorage.daily
  /\ dailyClears' = localStorage.clears
  /\ twitchClient' = "open"
  /\ last' = [op |-> "connectTwitch"]
  /\ UNCHANGED <<levelVars, chatVars, localStorage, envVars, wosSocket, disconnectCalls,
                 instanceVars, feedCount, chatCount, call>>

\* loadWordsFromDb, started by the constructor, completes (a failed load
\* never assigns the lexicon)
LoadWordsFromDb ==
  /\ ~wosDictionaryLoaded
  /\ feedCount = 0 /\ chatCount = 0
  /\ wosDictionaryLoaded' = TRUE
  /\ last' = [op |-> "loadWords"]
  /\ UNCHANGED <<levelVars, chatVars, recordVars, twitchOnMessageSet, pendingGuesses,
                 saveBoardCalls, connectionVars, instanceVars, feedCount, chatCount, call>>

(***************************************************************************)
(* Chat stream                                                             *)
(***************************************************************************)
\* twitchWorker.onmessage for a 'twitch_message'; a message delivered while
\* no handler is assigned is lost.  Chat reaches the worker only through the
\* client that connectToTwitch creates.
TwitchMessage(username, message) ==
  /\ storageKeysSet
  /\ chatCount < MaxChat
  /\ chatCount' = chatCount + 1
  /\ LET timestamp == chatCount + 1
     IN  /\ IF twitchOnMessageSet
            THEN /\ lastTwitchMessage' =
                      <<[username |-> username, message |-> message, timestamp |-> timestamp]>>
                 /\ twitchChatLog' =
                      [u \in DOMAIN twitchChatLog \cup {username} |->
                         IF u = username
                         THEN [message |-> message, timestamp |-> timestamp]
                         ELSE twitchChatLog[u]]
            ELSE UNCHANGED chatVars
         /\ last' = [op |-> "chat", username |-> username, message |-> message,
                     timestamp |-> timestamp]
  /\ UNCHANGED <<levelVars, recordVars, envVars, connectionVars, instanceVars, feedCount, call>>

(***************************************************************************)
(* Level start / game connected                                            *)
(***************************************************************************)
\* deviation: every initialization clears the board
ClearsBoard_Always(wosEventType) == TRUE

\* handleGameInitialization: `if (wosEventType === 1) this.clearBoard()`
ClearsBoard(wosEventType) == wosEventType = 1

\* handleGameInitialization (with clearBoard for type 1)
handleGameInitialization(wosEventType, payload, record) ==
  LET pb0   == RecordPrologue(record)
      pb1   == updateChannelAllTimeRecord(pb0, payload.level)
      daily == updateChannelDailyRecord(dailyBest, payload.level)
      clearedLetters == IF ClearsBoard(wosEventType) THEN <<>> ELSE currentLevelLetters
  IN  /\ IF ClearsBoard(wosEventType)
         THEN \* clearBoard
              /\ currentLevelCorrectWords' = <<>>
              /\ currentLevelBigWord' = <<>>
              /\ lastTwitchMessage' = <<>>
              /\ currentLevelHiddenLetters' = <<>>
              /\ currentLevelFakeLetters' = <<>>
              /\ twitchChatLog' = EmptyMap
              /\ hiddenLetterEl' = <<>>
              /\ fakeLetterEl' = <<>>
         ELSE UNCHANGED <<currentLevelCorrectWords, currentLevelBigWord, lastTwitchMessage,
                          currentLevelHiddenLetters, currentLevelFakeLetters, twitchChatLog,
                          hiddenLetterEl, fakeLetterEl>>
      /\ currentLevelSlots' = payload.slots
      /\ currentLevel' = payload.level
      /\ personalBest' = pb1
      /\ dailyBest' = daily
      /\ localStorage' = StorageAfter(pb1, daily, dailyClears)
      /\ currentLevelLetters' =
           IF Len(payload.letters) > 0 THEN payload.letters ELSE clearedLetters

\* feed event of type 1 (level started) or 12 (game connected)
WosGameInitialization(wosEventType, payload, record) ==
  /\ FeedDelivered
  /\ handleGameInitialization(wosEventType, payload, record)
  /\ last' = [op |-> "init", type |-> wosEventType, payload |-> payload]
  /\ UNCHANGED <<dailyClears, storageKeysSet, wosDictionaryLoaded, pendingGuesses,
                 saveBoardCalls, chatCount>>

(***************************************************************************)
(* Correct guess                                                           *)
(***************************************************************************)
\* feed event of type 3: handleCorrectGuess suspends on the process delay;
\* the handler returns to the event loop and the guess waits for its timer
CorrectGuessReceived(username, letters, index, hitMax, record) ==
  /\ FeedDelivered
  \* the feed reports a guess for a slot of the board it described
  /\ (index >= 0 /\ index < Len(currentLevelSlots)
        => Len(letters) = currentLevelSlots[index + 1].length)
  /\ LET pb0 == RecordPrologue(record)
         guess == [username |-> username, letters |-> letters, index |-> index,
                   hitMax |-> hitMax]
     IN  /\ personalBest' = pb0
         /\ localStorage' = StorageAfter(pb0, dailyBest, dailyClears)
         /\ pendingGuesses' = Append(pendingGuesses, guess)
         /\ last' = [op |-> "guess", guess |-> guess]
  /\ UNCHANGED <<levelVars, chatVars, dailyBest, dailyClears, storageKeysSet,
                 wosDictionaryLoaded, saveBoardCalls, chatCount>>

\* a correct guess is received while fewer than MaxPending guesses are suspended
WosCorrectGuess(username, letters, index, hitMax, record) ==
  /\ Len(pendingGuesses) < MaxPending
  /\ CorrectGuessReceived(username, letters, index, hitMax, record)

\* updateGameState: the last chat message matches the guess
MatchesLastMessage(username, letters) ==
  /\ lastTwitchMessage # <<>>
  /\ toLowerCase(lastTwitchMessage[1].username) = toLowerCase(username)
  /\ Len(lastTwitchMessage[1].message) = Len(letters)

\* updateGameState: the contributor's chat log entry matches the guess
MatchesChatLog(username, letters) ==
  /\ toLowerCase(username) \in DOMAIN twitchChatLog
  /\ Len(twitchChatLog[toLowerCase(username)].message) = Len(letters)

\* updateGameState: where the word is taken from
WordSource(username, letters) ==
  IF MatchesLastMessage(username, letters) THEN "last"
  ELSE IF MatchesChatLog(username, letters) THEN "log"
  ELSE "miss"

\* deviation: the word is always the one spelled by the event's letters
ResolvedWord_EventLetters(username, letters) == letters

\* deviation: only a guess with hidden letters is looked up in the chat
ResolvedWord_PlainKeepsLetters(username, letters) ==
  IF ~InSeq(letters, "?") THEN letters
  ELSE IF WordSource(username, letters) = "last" THEN lastTwitchMessage[1].message
  ELSE IF WordSource(username, letters) = "log"
       THEN twitchChatLog[toLowerCase(username)].message
  ELSE letters

\* updateGameState: `word`, initially letters.join(''), after the chat lookup
ResolvedWord(username, letters) ==
  IF WordSource(username, letters) = "last" THEN lastTwitchMessage[1].message
  ELSE IF WordSource(username, letters) = "log"
       THEN twitchChatLog[toLowerCase(username)].message
  ELSE letters

\* deviation: the guess is applied also when no chat entry matches
SkipsUpdate_Never(username, letters) == FALSE

\* updateGameState: the early `return` when no chat entry matches
SkipsUpdate(username, letters) == WordSource(username, letters) = "miss"

\* deviation: an index outside the board is moved to the nearest slot
updateCurrentLevelSlots_Clamped(slots, username, letters, index, hitMax) ==
  IF slots = <<>> THEN slots
  ELSE LET i == IF index < 0 THEN 0
                ELSE IF index >= Len(slots) THEN Len(slots) - 1 ELSE index
       IN  [slots EXCEPT ![i + 1] =
              [letters |-> letters, word |-> letters, user |-> username,
               hitMax |-> hitMax, index |-> i, length |-> Len(letters)]]

\* updateCurrentLevelSlots
updateCurrentLevelSlots(slots, username, letters, index, hitMax) ==
  IF index >= 0 /\ index < Len(slots)
  THEN [slots EXCEPT ![index + 1] =
          [letters |-> letters, word |-> letters, user |-> username,
           hitMax |-> hitMax, index |-> index, length |-> Len(letters)]]
  ELSE slots

RECURSIVE DistinctInOrder(_, _)
\* the keys of a Map / Set in insertion order
DistinctInOrder(seq, seen) ==
  IF seq = <<>> THEN <<>>
  ELSE IF Head(seq) \in seen THEN DistinctInOrder(Tail(seq), seen)
       ELSE <<Head(seq)>> \o DistinctInOrder(Tail(seq), seen \cup {Head(seq)})

\* deviation: only letters that the level letters lack altogether are hidden
HiddenOfBigWord_AbsentOnly(bigWord, levelLetters) ==
  DistinctInOrder(FilterNotIn(toLowerCase(SplitSpace(bigWord)), levelLetters), {})

\* calculateHiddenLetters: the letters of the big word that the level letters lack
HiddenOfBigWord(bigWord, levelLetters) ==
  LET bigWordLetters == toLowerCase(SplitSpace(bigWord))
      starred == [i \in DOMAIN bigWordLetters |->
                    IF CountOf(levelLetters, bigWordLetters[i])
                         < CountOf(bigWordLetters, bigWordLetters[i])
                    THEN bigWordLetters[i] ELSE "-"]
  IN  DistinctInOrder(FilterOut(starred, "-"), {})

\* calculateHiddenLetters: the new text of #hidden-letter
calculateHiddenLetters(bigWord, levelLetters, el) ==
  LET hiddenLetters == HiddenOfBigWord(bigWord, levelLetters)
  IN  IF Len(hiddenLetters) > 0 /\ Len(hiddenLetters) # Len(levelLetters)
      THEN toUpperCase(JoinSpace(hiddenLetters))
      ELSE el

\* calculateFakeLetters: level letters that are not in the big word
FakeOfBigWord(bigWord, levelLetters) ==
  FilterOut(FilterNotIn(levelLetters, toLowerCase(SplitSpace(bigWord))), "?")

\* calculateFakeLetters: the new text of #fake-letter
calculateFakeLetters(bigWord, levelLetters, el) ==
  LET fakeLetters == FakeOfBigWord(bigWord, levelLetters)
  IN  IF Len(fakeLetters) > 0 /\ Len(fakeLetters) # Len(levelLetters)
      THEN toUpperCase(JoinSpace(fakeLetters))
      ELSE el

RECURSIVE ConcatUnstarred(_)
\* the letters of all correct words without '*', folded, in list order
ConcatUnstarred(words) ==
  IF words = <<>> THEN <<>>
  ELSE IF includesChar(Head(words), "*") THEN ConcatUnstarred(Tail(words))
       ELSE toLowerCase(Head(words)) \o ConcatUnstarred(Tail(words))

RECURSIVE MaxFrequency_Cumulative(_, _)
\* deviation: the counts of a letter are added up over the words
MaxFrequency_Cumulative(words, letter) ==
  IF words = <<>> THEN 0
  ELSE IF includesChar(Head(words), "*") THEN MaxFrequency_Cumulative(Tail(words), letter)
       ELSE CountOf(toLowerCase(Head(words)), letter)
              + MaxFrequency_Cumulative(Tail(words), letter)

RECURSIVE MaxFrequency(_, _)
\* correctLettersFrequency.get(letter): the largest count in one word
MaxFrequency(words, letter) ==
  IF words = <<>> THEN 0
  ELSE IF includesChar(Head(words), "*") THEN MaxFrequency(Tail(words), letter)
       ELSE Max(CountOf(toLowerCase(Head(words)), letter), MaxFrequency(Tail(words), letter))

RECURSIVE Repeat(_, _)
Repeat(c, n) == IF n <= 0 THEN <<>> ELSE <<c>> \o Repeat(c, n - 1)

RECURSIVE PotentialFrom(_, _, _)
PotentialFrom(keys, words, levelLetters) ==
  IF keys = <<>> THEN <<>>
  ELSE Repeat(Head(keys),
              MaxFrequency(words, Head(keys)) - CountOf(FilterOut(levelLetters, "?"), Head(keys)))
       \o PotentialFrom(Tail(keys), words, levelLetters)

\* updateGameState: potentialHiddenLetters
potentialHiddenLetters(words, levelLetters) ==
  PotentialFrom(DistinctInOrder(ConcatUnstarred(words), {}), words, levelLetters)

RECURSIVE ReplaceQuestionMarks(_, _)
\* for each of `repl`: letters[letters.indexOf('?')] = repl[i]
ReplaceQuestionMarks(letters, repl) ==
  IF repl = <<>> \/ ~InSeq(letters, "?") THEN letters
  ELSE LET i == CHOOSE k \in DOMAIN letters :
                  letters[k] = "?" /\ \A j \in 1..(k-1) : letters[j] # "?"
       IN  ReplaceQuestionMarks([letters EXCEPT ![i] = Head(repl)], Tail(repl))

\* updateGameState, hidden-letter inference: the letters afterwards
InferLetters(levelLetters, potential) ==
  LET questionMarksCount == CountOf(levelLetters, "?")
  IN  IF questionMarksCount = 1 \/ Len(potential) = questionMarksCount
      THEN FilterOut(levelLetters, "?")
      ELSE ReplaceQuestionMarks(levelLetters,
             SubSeq(potential, 1, Min(Len(potential), questionMarksCount)))

\* updateGameState, hidden-letter inference: what is pushed to currentLevelHiddenLetters
InferHidden(levelLetters, potential) ==
  LET questionMarksCount == CountOf(levelLetters, "?")
  IN  IF questionMarksCount = 1 \/ Len(potential) = questionMarksCount
      THEN potential
      ELSE SubSeq(potential, 1, Min(Len(potential), questionMarksCount))

\* updateGameState, applied to the guess whose delay has expired
updateGameState(guess) ==
  LET source == WordSource(guess.username, guess.letters)
  IN  IF SkipsUpdate(guess.username, guess.letters)
      THEN /\ UNCHANGED levelVars
           /\ last' = [op |-> "resolve", guess |-> guess, source |-> source, word |-> <<>>]
      ELSE LET word     == ResolvedWord(guess.username, guess.letters)
               words    == updateCorrectWordsDisplayed(currentLevelCorrectWords, word)
               bigWord  == toUpperCase(JoinSpace(word))
               potential == potentialHiddenLetters(words, currentLevelLetters)
               infer    == ~guess.hitMax /\ Len(potential) > 0 /\ hiddenLetterEl = <<>>
           IN  /\ currentLevelCorrectWords' = words
               /\ currentLevelSlots' =
                    updateCurrentLevelSlots(currentLevelSlots, guess.username, word,
                                            guess.index, guess.hitMax)
               /\ currentLevelBigWord' = IF guess.hitMax THEN bigWord ELSE currentLevelBigWord
               /\ hiddenLetterEl' =
                    IF guess.hitMax
                    THEN calculateHiddenLetters(bigWord, currentLevelLetters, hiddenLetterEl)
                    ELSE IF infer THEN toUpperCase(JoinSpace(potential)) ELSE hiddenLetterEl
               /\ fakeLetterEl' =
                    IF guess.hitMax
                    THEN calculateFakeLetters(bigWord, currentLevelLetters, fakeLetterEl)
                    ELSE fakeLetterEl
               /\ currentLevelLetters' =
                    IF infer THEN InferLetters(currentLevelLetters, potential)
                    ELSE currentLevelLetters
               /\ currentLevelHiddenLetters' =
                    IF infer
                    THEN currentLevelHiddenLetters \o InferHidden(currentLevelLetters, potential)
                    ELSE currentLevelHiddenLetters
               /\ UNCHANGED <<currentLevel, currentLevelFakeLetters>>
               /\ last' = [op |-> "resolve", guess |-> guess, source |-> source, word |-> word]

\* deviation: the timer started last fires first
ExpiredTimer_Newest(pending) == Len(pending)

\* handleCorrectGuess starts every timer with the same msgProcessDelay, so
\* the timers expire in the order they were started: the oldest fires first
ExpiredTimer(pending) == 1

\* the timer of a suspended guess fires and resolves the promise that
\* handleCorrectGuess awaits
TimerFires ==
  /\ pendingGuesses # <<>>
  /\ LET i == ExpiredTimer(pendingGuesses)
     IN  pendingGuesses' = SubSeq(pendingGuesses, 1, i - 1)
                             \o SubSeq(pendingGuesses, i + 1, Len(pendingGuesses))

\* handleCorrectGuess resumes after its timer and calls updateGameState
ProcessDelayElapsed ==
  /\ TimerFires
  /\ updateGameState(pendingGuesses[ExpiredTimer(pendingGuesses)])
  /\ UNCHANGED <<chatVars, recordVars, wosDictionaryLoaded, twitchOnMessageSet,
                 saveBoardCalls, connectionVars, instanceVars, feedCount, chatCount, call>>

(***************************************************************************)
(* Letters revealed                                                        *)
(***************************************************************************)
\* deviation: the fake letters stay among the level letters
RevealedLetters_KeepsFake(levelLetters, hiddenLetters, falseLetters) ==
  FilterOut(levelLetters \o hiddenLetters, "?")

\* handleLetterReveal: the level letters afterwards
RevealedLetters(levelLetters, hiddenLetters, falseLetters) ==
  FilterOut(FilterNotIn(levelLetters, falseLetters) \o hiddenLetters, "?")

\* feed event of type 10
WosLetterReveal(hiddenLetters, falseLetters, record) ==
  /\ FeedDelivered
  /\ LET pb0 == RecordPrologue(record)
     IN  /\ personalBest' = pb0
         /\ localStorage' = StorageAfter(pb0, dailyBest, dailyClears)
  /\ fakeLetterEl' =
       IF Len(falseLetters) > 0 THEN toUpperCase(JoinSpace(falseLetters)) ELSE fakeLetterEl
  /\ hiddenLetterEl' =
       IF Len(hiddenLetters) > 0 THEN toUpperCase(JoinSpace(hiddenLetters)) ELSE hiddenLetterEl
  /\ currentLevelLetters' =
       IF currentLevelBigWord = <<>>
       THEN RevealedLetters(currentLevelLetters, hiddenLetters, falseLetters)
       ELSE currentLevelLetters
  /\ last' = [op |-> "reveal", hiddenLetters |-> hiddenLetters, falseLetters |-> falseLetters]
  /\ UNCHANGED <<currentLevel, currentLevelBigWord, currentLevelCorrectWords,
                 currentLevelHiddenLetters, currentLevelFakeLetters, currentLevelSlots,
                 chatVars, dailyBest, dailyClears, storageKeysSet, wosDictionaryLoaded,
                 pendingGuesses, saveBoardCalls, chatCount>>

(***************************************************************************)
(* Missing-word inference (logMissingWords)                                *)
(***************************************************************************)
RECURSIVE MinLettersLength(_)
\* Math.min(...slots.map(slot => slot.letters.length)), slots not empty
MinLettersLength(slots) ==
  IF Len(slots) = 1 THEN Len(slots[1].letters)
  ELSE Min(Len(slots[1].letters), MinLettersLength(Tail(slots)))

\* logMissingWords: the letters searched
KnownLetters(bigWord, levelLetters) ==
  IF bigWord # <<>> THEN bigWord ELSE ReplaceFirst(levelLetters, "?")

\* logMissingWords: the minimum length searched
MinLength(slots) ==
  IF Len(slots) > 0 THEN MinLettersLength(slots) ELSE DefaultMinLength

RECURSIVE AppendMissing(_, _)
\* missingWords.forEach(word => updateCorrectWordsDisplayed(word + "*"))
AppendMissing(list, missingWords) ==
  IF missingWords = <<>> THEN list
  ELSE AppendMissing(updateCorrectWordsDisplayed(list, Append(Head(missingWords), "*")),
                     Tail(missingWords))

\* logMissingWords: the words found missing (the lexicon is loaded)
MissingWords ==
  findAllMissingWords(Lexicon, currentLevelCorrectWords,
                      KnownLetters(currentLevelBigWord, currentLevelLetters),
                      MinLength(currentLevelSlots))

\* logMissingWords: the correct-word list afterwards; with the lexicon
\* still undefined, findWosWordsByLetters raises a TypeError before any change
logMissingWords ==
  IF wosDictionaryLoaded
  THEN AppendMissing(currentLevelCorrectWords, MissingWords)
  ELSE currentLevelCorrectWords

\* feed event of type 5 (level / game ended): handleLevelEnd
WosLevelEnd(record) ==
  /\ FeedDelivered
  /\ LET pb0 == RecordPrologue(record)
     IN  /\ personalBest' = pb0
         /\ localStorage' = StorageAfter(pb0, dailyBest, dailyClears)
  /\ currentLevelCorrectWords' = logMissingWords
  /\ last' = [op |-> "end", inference |-> TRUE, threw |-> ~wosDictionaryLoaded]
  /\ UNCHANGED <<currentLevel, currentLevelBigWord, currentLevelLetters,
                 currentLevelHiddenLetters, currentLevelFakeLetters, currentLevelSlots,
                 hiddenLetterEl, fakeLetterEl, chatVars, dailyBest, dailyClears,
                 storageKeysSet, wosDictionaryLoaded, pendingGuesses, saveBoardCalls,
                 chatCount>>

(***************************************************************************)
(* Persistence collaborator (db-service.ts)                                *)
(***************************************************************************)
\* /^[A-Z]+$/.test(text)
IsUpperLetters(text) ==
  Len(text) > 0 /\ \A i \in DOMAIN text : InSeq(UpperAlpha, text[i])

\* saveBoard: cleanBoardId
CleanBoardId(boardId) == toUpperCase(StripSpaces(boardId))

\* deviation: a slot without a word is not seen as incomplete
SaveBoardPosts_IgnoresEmptyWord(boardId, slots) ==
  /\ Len(boardId) # 0
  /\ IsUpperLetters(CleanBoardId(boardId))
  /\ Len(CleanBoardId(boardId)) >= MinBoardIdLen
  /\ Len(CleanBoardId(boardId)) <= MaxBoardIdLen
  /\ Len(slots) # 0
  /\ ~ \E i \in DOMAIN slots :
         \/ InSeq(slots[i].letters, ".")
         \/ InSeq(slots[i].letters, "?")

\* saveBoard: the request is posted (every guard passed)
SaveBoardPosts(boardId, slots) ==
  /\ Len(boardId) # 0
  /\ IsUpperLetters(CleanBoardId(boardId))
  /\ Len(CleanBoardId(boardId)) >= MinBoardIdLen
  /\ Len(CleanBoardId(boardId)) <= MaxBoardIdLen
  /\ Len(slots) # 0
  /\ ~ \E i \in DOMAIN slots :
         \/ InSeq(slots[i].letters, ".")
         \/ InSeq(slots[i].letters, "?")
         \/ Len(slots[i].word) = 0

\* saveBoard as seen by its caller: the call and whether it posted
saveBoard(boardId, slots) ==
  [boardId |-> boardId, slots |-> slots, posted |-> SaveBoardPosts(boardId, slots)]

(***************************************************************************)
(* Level results                                                           *)
(***************************************************************************)
\* deviation: a level result advances the level by one
LevelAfterResults_PlusOne(level, stars) == level + 1

\* handleLevelResults: `this.currentLevel += parseInt(stars)`
LevelAfterResults(level, stars) == level + stars

\* deviation: a clear needs five stars and a contributor in every slot
IsClear_Both(stars, slots) ==
  stars = ClearStars /\ \A i \in DOMAIN slots : slots[i].user # <<>>

\* handleLevelResults: `stars === 5 || slots.every(slot => slot.user)`
IsClear(stars, slots) ==
  stars = ClearStars \/ \A i \in DOMAIN slots : slots[i].user # <<>>

\* deviation: the board is saved under the defining word as it stands
BoardIdToSave_BigWord(bigWord, slots) == bigWord

\* handleLevelResults: the board id handed to saveBoard
BoardIdToSave(bigWord, slots) ==
  IF slots[Len(slots)].word # bigWord THEN slots[Len(slots)].word ELSE bigWord

\* feed event of type 4: handleLevelResults
WosLevelResults(stars, record) ==
  /\ FeedDelivered
  /\ LET pb0    == RecordPrologue(record)
         level  == LevelAfterResults(currentLevel, stars)
         daily  == updateChannelDailyRecord(dailyBest, level)
         clear  == IsClear(stars, currentLevelSlots)
         clears == IF clear THEN recordBoardClear(dailyClears) ELSE dailyClears
         capture == clear /\ currentLevelBigWord # <<>>
         \* slots[slots.length - 1].word on an empty list raises a TypeError
         threwOnSlots == capture /\ Len(currentLevelSlots) = 0
         saves  == capture /\ ~threwOnSlots
     IN  /\ personalBest' = pb0
         /\ currentLevel' = level
         /\ dailyBest' = daily
         /\ dailyClears' = clears
         /\ localStorage' = StorageAfter(pb0, daily, clears)
         /\ currentLevelBigWord' =
              IF saves THEN BoardIdToSave(currentLevelBigWord, currentLevelSlots)
              ELSE currentLevelBigWord
         /\ saveBoardCalls' =
              IF saves
              THEN Append(saveBoardCalls,
                          saveBoard(BoardIdToSave(currentLevelBigWord, currentLevelSlots),
                                    currentLevelSlots))
              ELSE saveBoardCalls
         /\ currentLevelCorrectWords' =
              IF clear THEN currentLevelCorrectWords ELSE logMissingWords
         /\ last' = [op |-> "results", stars |-> stars, clear |-> clear,
                     inference |-> ~clear, saved |-> saves,
                     threw |-> threwOnSlots \/ (~clear /\ ~wosDictionaryLoaded)]
  /\ UNCHANGED <<currentLevelLetters, currentLevelHiddenLetters, currentLevelFakeLetters,
                 currentLevelSlots, hiddenLetterEl, fakeLetterEl, chatVars, storageKeysSet,
                 wosDictionaryLoaded, pendingGuesses, chatCount>>

(***************************************************************************)
(* Specification                                                           *)
(***************************************************************************)
Next ==
  \/ ConnectToTwitch
  \/ LoadWordsFromDb
  \/ \E username \in ChatUsers, message \in ChatWords : TwitchMessage(username, message)
  \/ \E payload \in StartPayloads : WosGameInitialization(1, payload, NoRecord)
  \/ \E payload \in ConnectPayloads : WosGameInitialization(12, payload, payload.record)
  \/ \E username \in FeedUsers, letters \in GuessLetters, index \in IndexValues,
        hitMax \in BOOLEAN :
       WosCorrectGuess(username, letters, index, hitMax, NoRecord)
  \/ ProcessDelayElapsed
  \/ \E stars \in StarValues : WosLevelResults(stars, NoRecord)
  \/ WosLevelEnd(NoRecord)
  \/ \E reveal \in RevealPayloads : WosLetterReveal(reveal[1], reveal[2], NoRecord)

Spec == Init /\ [][Next]_vars

(***************************************************************************)
(* Library functions called on their own                                   *)
(***************************************************************************)
\* everything but `call`
programVars ==
  <<levelVars, chatVars, recordVars, envVars, connectionVars, instanceVars, feedCount,
    chatCount, last>>

\* how the POST of saveBoard ends: response.ok, a response that is not ok,
\* or a rejected fetch
FetchOutcomes == {"ok", "notOk", "rejected"}

\* board ids handed to saveBoard
BoardIds ==
  { <<>>, <<" ", " ">>, w_test, w_set, <<"T", " ", "E", " ", "S", " ", "T", " ", "S">>,
    <<"t", "e", "5", "t">>, Repeat("s", MaxBoardIdLen), Repeat("s", MaxBoardIdLen + 1) }

\* slot lists handed to saveBoard
SavedSlotLists ==
  { <<>>,
    <<FilledSlot(0, w_test, u_Abe)>>,
    <<FilledSlot(0, w_test, u_Abe), FilledSlot(1, w_tests, u_Abe)>>,
    <<FilledSlot(0, w_test, u_Abe), EmptySlot(1, 5)>>,
    <<[FilledSlot(0, w_test, u_Abe) EXCEPT !.letters = <<"t", "e", "s", "?">>]>>,
    <<[FilledSlot(0, w_test, u_Abe) EXCEPT !.word = <<>>]>> }

\* saveBoard: the writes issued, the id they carry, what is returned and
\* whether the call raised (the try/catch around fetch swallows a failure)
saveBoardOutcome(boardId, slots, fetchOutcome) ==
  IF SaveBoardPosts(boardId, slots)
  THEN [writes |-> 1, id |-> CleanBoardId(boardId),
        result |-> IF fetchOutcome = "ok" THEN "data" ELSE "undefined",
        raised |-> FALSE]
  ELSE [writes |-> 0, id |-> <<>>, result |-> "undefined", raised |-> FALSE]

\* a call of saveBoard
SaveBoardCall(boardId, slots, fetchOutcome) ==
  /\ call' = [op |-> "saveBoard", boardId |-> boardId, slots |-> slots,
              fetchOutcome |-> fetchOutcome,
              out |-> saveBoardOutcome(boardId, slots, fetchOutcome)]
  /\ UNCHANGED programVars

\* a lexicon with a three-letter word, words that differ in case only and
\* words of equal length in both orders
MixedLexicon ==
  <<w_set, <<"T", "e", "s", "t">>, w_tests, w_test, w_sets, <<"S", "E", "T", "S">>>>

\* wosDictionary at the time of a search
SearchLexicons == {Lexicon, MixedLexicon}

\* `letters` of a search
SearchLetters ==
  { <<>>, w_test, <<"e", "t", "t", "s">>, w_tests, <<"T", "E", "S", "T", "S">>,
    <<"s", "x", "t", "e", "s", "q">>, <<"t", "e">>, <<"?", "5">> }

\* `length` of a search
SearchLengths == {NoLength, 3, 4, 5, 6}

\* findWosWordsByLetters: the words returned, or the TypeError raised by
\* `.filter` on the lexicon that is still undefined
findWosWordsByLettersOutcome(loaded, dict, letters, length) ==
  IF loaded
  THEN [threw |-> FALSE, words |-> findWosWordsByLetters(dict, letters, length)]
  ELSE [threw |-> TRUE, words |-> <<>>]

\* a call of findWosWordsByLetters
FindWosWordsByLettersCall(loaded, dict, letters, length) ==
  /\ call' = [op |-> "search", loaded |-> loaded, dict |-> dict, letters |-> letters,
              length |-> length,
              out |-> findWosWordsByLettersOutcome(loaded, dict, letters, length)]
  /\ UNCHANGED programVars

\* the largest board handed to groupConsecutiveEmptySlots
MaxBoardSlots == 4

\* `null` as lowerBoundIndex / upperBoundIndex
NoBound == -1

\* a board of n slots, slot i at index i - 1, resolved where filled[i]:
\* the first two slots hold 4 letters, the others 5
BoardOf(n, filled) ==
  [i \in 1..n |->
     IF filled[i]
     THEN FilledSlot(i - 1, IF i <= 2 THEN w_test ELSE w_tests, u_Abe)
     ELSE EmptySlot(i - 1, IF i <= 2 THEN 4 ELSE 5)]

\* slot collections handed to groupConsecutiveEmptySlots
GroupedBoards ==
  UNION { { BoardOf(n, filled) : filled \in [1..n -> BOOLEAN] } : n \in 0..MaxBoardSlots }

\* deviation: every slot counts as empty
IsEmptySlot_Always(slot) == TRUE

\* groupConsecutiveEmptySlots: `!slot.user`
IsEmptySlot(slot) == slot.user = <<>>

RECURSIVE EmptySlotInfos(_)
\* groupConsecutiveEmptySlots: emptySlotInfos
EmptySlotInfos(slots) ==
  IF slots = <<>> THEN <<>>
  ELSE IF IsEmptySlot(Head(slots))
       THEN <<[index |-> Head(slots).index, length |-> Head(slots).length]>>
              \o EmptySlotInfos(Tail(slots))
       ELSE EmptySlotInfos(Tail(slots))

\* deviation: any two empty slots count as consecutive
Consecutive_Always(previous, next) == TRUE

\* groupConsecutiveEmptySlots: the test that continues the current group
Consecutive(previous, next) == next.index = previous.index + 1

\* createGroupWithBounds: slotByIndex.get(i) exists and has a user
FilledAt(allSlots, i) ==
  \E k \in DOMAIN allSlots :
    /\ allSlots[k].index = i
    /\ \A j \in (k + 1)..Len(allSlots) : allSlots[j].index # i
    /\ allSlots[k].user # <<>>

\* createGroupWithBounds: Math.max(...allSlots.map(s => s.index))
MaxIndex(allSlots) ==
  CHOOSE m \in {allSlots[k].index : k \in DOMAIN allSlots} :
    \A k \in DOMAIN allSlots : allSlots[k].index <= m

createGroupWithBounds(groupSlots, allSlots) ==
  LET firstIndex == groupSlots[1].index
      lastIndex  == groupSlots[Len(groupSlots)].index
      below == {i \in 0..(firstIndex - 1) : FilledAt(allSlots, i)}
      above == {i \in (lastIndex + 1)..MaxIndex(allSlots) : FilledAt(allSlots, i)}
  IN  [slots |-> groupSlots,
       lowerBoundIndex |->
         IF below = {} THEN NoBound ELSE CHOOSE i \in below : \A j \in below : j <= i,
       upperBoundIndex |->
         IF above = {} THEN NoBound ELSE CHOOSE i \in above : \A j \in above : i <= j]

RECURSIVE GroupRuns(_, _, _)
\* groupConsecutiveEmptySlots: the loop over emptySlotInfos[1..] and the
\* push of the last group
GroupRuns(infos, currentGroup, allSlots) ==
  IF infos = <<>> THEN <<createGroupWithBounds(currentGroup, allSlots)>>
  ELSE IF Consecutive(currentGroup[Len(currentGroup)], Head(infos))
       THEN GroupRuns(Tail(infos), Append(currentGroup, Head(infos)), allSlots)
       ELSE <<createGroupWithBounds(currentGroup, allSlots)>>
              \o GroupRuns(Tail(infos), <<Head(infos)>>, allSlots)

groupConsecutiveEmptySlots(slots) ==
  LET emptySlotInfos == EmptySlotInfos(slots)
  IN  IF Len(emptySlotInfos) = 0 THEN <<>>
      ELSE GroupRuns(Tail(emptySlotInfos), <<Head(emptySlotInfos)>>, slots)

\* a call of groupConsecutiveEmptySlots
GroupConsecutiveEmptySlotsCall(slots) ==
  /\ call' = [op |-> "group", slots |-> slots, out |-> groupConsecutiveEmptySlots(slots)]
  /\ UNCHANGED programVars

\* `null` as a bound of wordFitsAlphabetically
NullWord == <<"null">>

\* deviation: a word equal to a bound fits
wordFitsAlphabetically_NotStrict(word, lowerBound, upperBound) ==
  LET wordLower == toLowerCase(word)
  IN  /\ lowerBound # NullWord => ~(localeCompare(wordLower, toLowerCase(lowerBound)) < 0)
      /\ upperBound # NullWord => ~(localeCompare(wordLower, toLowerCase(upperBound)) > 0)

wordFitsAlphabetically(word, lowerBound, upperBound) ==
  LET wordLower == toLowerCase(word)
  IN  /\ lowerBound # NullWord => ~(localeCompare(wordLower, toLowerCase(lowerBound)) <= 0)
      /\ upperBound # NullWord => ~(localeCompare(wordLower, toLowerCase(upperBound)) >= 0)

\* words handed to wordFitsAlphabetically, as word and as bounds
FilteredWords ==
  { <<>>, w_test, <<"T", "E", "S", "T">>, <<"S", "e", "t", "s">>, w_tests }

\* a call of wordFitsAlphabetically
WordFitsAlphabeticallyCall(word, lowerBound, upperBound) ==
  /\ call' = [op |-> "fits", word |-> word, lowerBound |-> lowerBound,
              upperBound |-> upperBound,
              out |-> wordFitsAlphabetically(word, lowerBound, upperBound)]
  /\ UNCHANGED programVars

RECURSIVE DistinctLengths(_, _)
\* findSlotMatchedMissedWords: lengthsInGroup, [...new Set(lengths)]
DistinctLengths(groupSlots, seen) ==
  IF groupSlots = <<>> THEN <<>>
  ELSE IF Head(groupSlots).length \in seen THEN DistinctLengths(Tail(groupSlots), seen)
       ELSE <<Head(groupSlots).length>>
              \o DistinctLengths(Tail(groupSlots), seen \cup {Head(groupSlots).length})

RECURSIVE FilterExactLength(_, _)
\* findSlotMatchedMissedWords: .filter((word) => word.length === length)
FilterExactLength(words, length) ==
  IF words = <<>> THEN <<>>
  ELSE IF Len(Head(words)) = length
       THEN <<Head(words)>> \o FilterExactLength(Tail(words), length)
       ELSE FilterExactLength(Tail(words), length)

\* deviation: the guessed words are compared with their '*' marker
IsGuessed_KeepsMarker(word, correctlyGuessedWords) ==
  \E i \in DOMAIN correctlyGuessedWords :
    toLowerCase(correctlyGuessedWords[i]) = toLowerCase(word)

\* findSlotMatchedMissedWords: some guessed word, '*' removed and folded,
\* is the word
IsGuessed(word, correctlyGuessedWords) ==
  \E i \in DOMAIN correctlyGuessedWords :
    toLowerCase(FilterOut(correctlyGuessedWords[i], "*")) = toLowerCase(word)

RECURSIVE FilterCandidates(_, _, _, _)
\* findSlotMatchedMissedWords: unguessedWords, then candidates
FilterCandidates(words, lowerBoundWord, upperBoundWord, correctlyGuessedWords) ==
  IF words = <<>> THEN <<>>
  ELSE LET rest == FilterCandidates(Tail(words), lowerBoundWord, upperBoundWord,
                                    correctlyGuessedWords)
       IN  IF /\ ~IsGuessed(Head(words), correctlyGuessedWords)
              /\ wordFitsAlphabetically(Head(words), lowerBoundWord, upperBoundWord)
           THEN <<Head(words)>> \o rest
           ELSE rest

RECURSIVE MatchedForLengths(_, _, _, _, _, _)
\* findSlotMatchedMissedWords: the loop over lengthsInGroup
MatchedForLengths(lengths, dict, lowerBoundWord, upperBoundWord, availableLetters, correctlyGuessedWords) ==
  IF lengths = <<>> THEN <<>>
  ELSE LET length == Head(lengths)
           possibleWords ==
             FilterExactLength(findWosWordsByLetters(dict, availableLetters, length), length)
           candidates ==
             FilterCandidates(possibleWords, lowerBoundWord, upperBoundWord,
                              correctlyGuessedWords)
           rest == MatchedForLengths(Tail(lengths), dict, lowerBoundWord, upperBoundWord,
                                     availableLetters, correctlyGuessedWords)
       IN  IF Len(candidates) > 0
           THEN <<[slotLength |-> length, candidates |-> candidates]>> \o rest
           ELSE rest

\* findSlotMatchedMissedWords, with the lexicon `dict` loaded
findSlotMatchedMissedWords(dict, group, lowerBoundWord, upperBoundWord, availableLetters, correctlyGuessedWords) ==
  MatchedForLengths(DistinctLengths(group.slots, {}), dict, lowerBoundWord, upperBoundWord,
                    availableLetters, correctlyGuessedWords)

\* a group of empty slots with the given lengths, at indices 0, 1, ...
GroupOfLengths(lengths) ==
  [slots |-> [i \in DOMAIN lengths |-> [index |-> i - 1, length |-> lengths[i]]],
   lowerBoundIndex |-> NoBound, upperBoundIndex |-> NoBound]

\* groups handed to findSlotMatchedMissedWords
MatchedGroups ==
  { GroupOfLengths(lengths) : lengths \in { <<3>>, <<4>>, <<4, 5>>, <<5, 5, 4>> } }

\* lowerBoundWord / upperBoundWord handed to findSlotMatchedMissedWords
MatchedLowerBounds == {NullWord, <<"S", "E", "T", "S">>}
MatchedUpperBounds == {NullWord, w_tests}

\* availableLetters handed to findSlotMatchedMissedWords
MatchedLetters == {w_tests, <<"S", "T", "E", "T">>}

\* correctlyGuessedWords handed to findSlotMatchedMissedWords
MatchedGuessedWords ==
  { <<>>, <<<<"S", "E", "T", "S", "*">>>>,
    <<<<"t", "e", "s", "t", "s", "*">>, w_sets>> }

\* a call of findSlotMatchedMissedWords
FindSlotMatchedMissedWordsCall(group, lowerBoundWord, upperBoundWord, availableLetters, correctlyGuessedWords) ==
  /\ call' = [op |-> "matched", dict |-> MixedLexicon, group |-> group,
              lowerBoundWord |-> lowerBoundWord, upperBoundWord |-> upperBoundWord,
              availableLetters |-> availableLetters,
              correctlyGuessedWords |-> correctlyGuessedWords,
              out |-> findSlotMatchedMissedWords(MixedLexicon, group, lowerBoundWord,
                                                 upperBoundWord, availableLetters,
                                                 correctlyGuessedWords)]
  /\ UNCHANGED programVars

\* knownWords handed to findAllMissingWords
MissingKnownWords ==
  { <<>>, <<<<"T", "E", "S", "T">>>>, <<w_sets, <<"t", "e", "s", "t", "*">>>> }

\* minLength handed to findAllMissingWords
MissingMinLengths == {3, 4, 5}

\* a call of findAllMissingWords
FindAllMissingWordsCall(dict, knownWords, knownLetters, minLength) ==
  /\ call' = [op |-> "missing", dict |-> dict, knownWords |-> knownWords,
              knownLetters |-> knownLetters, minLength |-> minLength,
              out |-> findAllMissingWords(dict, knownWords, knownLetters, minLength)]
  /\ UNCHANGED programVars

LibraryNext ==
  \/ \E boardId \in BoardIds, slots \in SavedSlotLists, fetchOutcome \in FetchOutcomes :
       SaveBoardCall(boardId, slots, fetchOutcome)
  \/ \E loaded \in BOOLEAN, dict \in SearchLexicons, letters \in SearchLetters,
        length \in SearchLengths :
       FindWosWordsByLettersCall(loaded, dict, letters, length)
  \/ \E slots \in GroupedBoards : GroupConsecutiveEmptySlotsCall(slots)
  \/ \E word \in FilteredWords, lowerBound \in FilteredWords \cup {NullWord},
        upperBound \in FilteredWords \cup {NullWord} :
       WordFitsAlphabeticallyCall(word, lowerBound, upperBound)
  \/ \E group \in MatchedGroups, lowerBoundWord \in MatchedLowerBounds,
        upperBoundWord \in MatchedUpperBounds, availableLetters \in MatchedLetters,
        correctlyGuessedWords \in MatchedGuessedWords :
       FindSlotMatchedMissedWordsCall(group, lowerBoundWord, upperBoundWord,
                                      availableLetters, correctlyGuessedWords)
  \/ \E dict \in SearchLexicons, knownWords \in MissingKnownWords,
        knownLetters \in MatchedLetters, minLength \in MissingMinLengths :
       FindAllMissingWordsCall(dict, knownWords, knownLetters, minLength)


LibrarySpec == Init /\ [][LibraryNext]_vars

(***************************************************************************)
(* Connections opened and closed while a level is played                   *)
(***************************************************************************)
\* number of calls of disconnect / disconnectTwitch in one behaviour
MaxDisconnectCalls == 3

\* deviation: the handle is kept after the connection was closed
HandleAfterDisconnect_Kept(handle) == handle

\* disconnect / disconnectTwitch: the handle afterwards (null / undefined)
HandleAfterDisconnect(handle) == NoHandle

\* connectToWosGame: without a game code in the mirror URL nothing is done;
\* otherwise a socket already there is disconnected and a new one is opened
ConnectToWosGame(validUrl) ==
  /\ wosSocket' = IF validUrl THEN "open" ELSE wosSocket
  /\ last' = [op |-> "connectWos", validUrl |-> validUrl]
  /\ UNCHANGED <<levelVars, chatVars, recordVars, envVars, twitchClient, disconnectCalls,
                 instanceVars, feedCount, chatCount, call>>

\* disconnect
Disconnect ==
  /\ disconnectCalls < MaxDisconnectCalls
  /\ disconnectCalls' = disconnectCalls + 1
  /\ wosSocket' = IF wosSocket # NoHandle THEN HandleAfterDisconnect(wosSocket) ELSE wosSocket
  /\ last' = [op |-> "disconnect", closed |-> wosSocket # NoHandle, raised |-> FALSE]
  /\ UNCHANGED <<levelVars, chatVars, recordVars, envVars, twitchClient, instanceVars,
                 feedCount, chatCount, call>>

\* disconnectTwitch
DisconnectTwitch ==
  /\ disconnectCalls < MaxDisconnectCalls
  /\ disconnectCalls' = disconnectCalls + 1
  /\ twitchClient' =
       IF twitchClient # NoHandle THEN HandleAfterDisconnect(twitchClient) ELSE twitchClient
  /\ last' = [op |-> "disconnectTwitch", closed |-> twitchClient # NoHandle,
              raised |-> FALSE]
  /\ UNCHANGED <<levelVars, chatVars, recordVars, envVars, wosSocket, instanceVars,
                 feedCount, chatCount, call>>

\* the page opens and closes its connections at any time; messages already
\* handed to the workers are still delivered after a disconnect
ConnectionNext ==
  \/ ConnectToTwitch
  \/ \E validUrl \in BOOLEAN : ConnectToWosGame(validUrl)
  \/ Disconnect
  \/ DisconnectTwitch
  \/ \E username \in ChatUsers, message \in ChatWords : TwitchMessage(username, message)
  \/ \E payload \in StartPayloads : WosGameInitialization(1, payload, NoRecord)
  \/ \E payload \in ConnectPayloads : WosGameInitialization(12, payload, payload.record)

ConnectionSpec == Init /\ [][ConnectionNext]_vars

(***************************************************************************)
(* Two GameSpectator objects in one page                                   *)
(*                                                                         *)
(* twitchWorker and wosWorker are created once, at module level; every     *)
(* socket and chat client posts into them, and every constructor assigns   *)
(* wosWorker.onmessage.  Of the second object only the level and the last  *)
(* chat message are kept.                                                  *)
(***************************************************************************)
\* session i (of 1..instances) is the game and channel that object i
\* connected to

\* new GameSpectator() for a second time: startEventProcessors assigns
\* wosWorker.onmessage again
ConstructSecondInstance ==
  /\ instances = 1
  /\ instances' = 2
  /\ otherInstance' = NewInstance
  /\ wosOnMessage' = 2
  /\ last' = [op |-> "construct"]
  /\ UNCHANGED <<levelVars, chatVars, recordVars, envVars, connectionVars, twitchOnMessage,
                 feedCount, chatCount, call>>

\* a level-started / game-connected event of one session: its socket posts
\* it to wosWorker, and the handler assigned to wosWorker.onmessage runs
SessionGameInitialization(session, wosEventType, payload, record) ==
  /\ feedCount < MaxFeed
  /\ feedCount' = feedCount + 1
  /\ twitchOnMessageSet' = TRUE
  /\ twitchOnMessage' = wosOnMessage
  /\ IF wosOnMessage = 1
     THEN /\ handleGameInitialization(wosEventType, payload, record)
          /\ UNCHANGED otherInstance
     ELSE /\ otherInstance' =
               [currentLevel |-> payload.level,
                lastTwitchMessage |->
                  IF ClearsBoard(wosEventType) THEN <<>> ELSE otherInstance.lastTwitchMessage]
          /\ UNCHANGED <<levelVars, chatVars, personalBest, dailyBest, localStorage>>
  /\ last' = [op |-> "sessionInit", session |-> session, handledBy |-> wosOnMessage]
  /\ UNCHANGED <<dailyClears, storageKeysSet, wosDictionaryLoaded, pendingGuesses,
                 saveBoardCalls, connectionVars, instances, wosOnMessage, chatCount, call>>

\* a chat message of one session: its client posts it to twitchWorker, and
\* the handler assigned to twitchWorker.onmessage (if any) runs
SessionTwitchMessage(session, username, message) ==
  /\ chatCount < MaxChat
  /\ chatCount' = chatCount + 1
  /\ LET timestamp == chatCount + 1
         entry == [username |-> username, message |-> message, timestamp |-> timestamp]
     IN  /\ IF twitchOnMessage = 1
            THEN /\ lastTwitchMessage' = <<entry>>
                 /\ twitchChatLog' =
                      [u \in DOMAIN twitchChatLog \cup {username} |->
                         IF u = username
                         THEN [message |-> message, timestamp |-> timestamp]
                         ELSE twitchChatLog[u]]
            ELSE UNCHANGED chatVars
         /\ otherInstance' =
              IF twitchOnMessage = 2
              THEN [otherInstance EXCEPT !.lastTwitchMessage = <<entry>>]
              ELSE otherInstance
  /\ last' = [op |-> "sessionChat", session |-> session, handledBy |-> twitchOnMessage]
  /\ UNCHANGED <<levelVars, recordVars, envVars, connectionVars, instances, wosOnMessage,
                 twitchOnMessage, feedCount, call>>

InstancesNext ==
  \/ ConstructSecondInstance
  \/ \E session \in 1..instances, payload \in StartPayloads :
       SessionGameInitialization(session, 1, payload, NoRecord)
  \/ \E session \in 1..instances, payload \in ConnectPayloads :
       SessionGameInitialization(session, 12, payload, payload.record)
  \/ \E session \in 1..instances, username \in ChatUsers, message \in ChatWords :
       SessionTwitchMessage(session, username, message)

InstancesSpec == Init /\ [][InstancesNext]_vars

(***************************************************************************)
(* A level played by several guessers                                      *)
(***************************************************************************)
\* level starts, game-connected events, chat messages and the correct
\* guesses of two viewers
SlotNext ==
  \/ ConnectToTwitch
  \/ \E username \in ChatUsers, message \in ChatWords : TwitchMessage(username, message)
  \/ \E payload \in StartPayloads : WosGameInitialization(1, payload, NoRecord)
  \/ \E payload \in ConnectPayloads : WosGameInitialization(12, payload, payload.record)
  \/ \E username \in FeedUsers \cup {u_bea}, letters \in GuessLetters, index \in IndexValues,
        hitMax \in BOOLEAN :
       WosCorrectGuess(username, letters, index, hitMax, NoRecord)
  \/ ProcessDelayElapsed

SlotSpec == Init /\ [][SlotNext]_vars

(***************************************************************************)
(* A board with two slots of one length                                    *)
(***************************************************************************)
\* level starts whose board has two four-letter slots, chat messages and
\* correct guesses on such a board
TwinSlotNext ==
  \/ ConnectToTwitch
  \/ \E username \in ChatUsers, message \in ChatWords : TwitchMessage(username, message)
  \/ WosGameInitialization(1, [level |-> 1, letters |-> <<"t", "e", "s", "t", "?">>,
                               slots |-> <<EmptySlot(0, 4), EmptySlot(1, 4)>>], NoRecord)
  \/ \E username \in FeedUsers, letters \in GuessLetters, index \in IndexValues,
        hitMax \in BOOLEAN :
       WosCorrectGuess(username, letters, index, hitMax, NoRecord)
  \/ ProcessDelayElapsed

TwinSlotSpec == Init /\ [][TwinSlotNext]_vars

(***************************************************************************)
(* Hidden-letter inference on levels with placeholders                     *)
(***************************************************************************)
\* level starts whose known letters have one or two '?' and more or fewer
\* letters than the words need, chat messages and correct guesses
InferenceNext ==
  \/ ConnectToTwitch
  \/ \E username \in ChatUsers, message \in ChatWords : TwitchMessage(username, message)
  \/ \E letters \in { <<"e", "s", "s", "t", "?">>, <<"e", "t", "?">>,
                       <<"e", "t", "?", "?">>, <<"e", "s", "t", "?", "?">>,
                       <<"e", "?", "?">> } :
       WosGameInitialization(1, [level |-> 1, letters |-> letters,
                                 slots |-> <<EmptySlot(0, 4), EmptySlot(1, 5)>>], NoRecord)
  \/ \E username \in FeedUsers, letters \in GuessLetters, index \in IndexValues,
        hitMax \in BOOLEAN :
       WosCorrectGuess(username, letters, index, hitMax, NoRecord)
  \/ ProcessDelayElapsed

InferenceSpec == Init /\ [][InferenceNext]_vars

(***************************************************************************)
(* A channel whose stored all-time best is not below its daily best        *)
(***************************************************************************)
\* the state after construction on such a channel: localStorage holds an
\* all-time best of 3 and a daily best of 2
RecordsInit ==
  /\ currentLevel = 0
  /\ personalBest = 0
  /\ dailyBest = 0
  /\ dailyClears = 0
  /\ currentLevelBigWord = <<>>
  /\ currentLevelCorrectWords = <<>>
  /\ currentLevelLetters = <<>>
  /\ currentLevelHiddenLetters = <<>>
  /\ currentLevelFakeLetters = <<>>
  /\ currentLevelSlots = <<>>
  /\ lastTwitchMessage = <<>>
  /\ twitchChatLog = EmptyMap
  /\ hiddenLetterEl = <<>>
  /\ fakeLetterEl = <<>>
  /\ storageKeysSet = FALSE
  /\ localStorage = [pb |-> 3, daily |-> 2, clears |-> 1]
  /\ wosDictionaryLoaded = FALSE
  /\ twitchOnMessageSet = FALSE
  /\ pendingGuesses = <<>>
  /\ saveBoardCalls = <<>>
  /\ wosSocket = NoHandle
  /\ twitchClient = NoHandle
  /\ disconnectCalls = 0
  /\ instances = 1
  /\ wosOnMessage = 1
  /\ twitchOnMessage = 0
  /\ otherInstance = NewInstance
  /\ feedCount = 0
  /\ chatCount = 0
  /\ last = [op |-> "none"]
  /\ call = [op |-> "none"]

RecordsSpec == RecordsInit /\ [][Next]_vars

(***************************************************************************)
(* Guesses of level 1 that are still suspended when level 2 starts         *)
(***************************************************************************)
\* level starts and chat messages at any time, correct guesses only while
\* level 1 is played: a guess resolved in level 2 was received in level 1
NextLevelNext ==
  \/ ConnectToTwitch
  \/ \E username \in ChatUsers, message \in ChatWords : TwitchMessage(username, message)
  \/ \E payload \in StartPayloads : WosGameInitialization(1, payload, NoRecord)
  \/ /\ currentLevel = 1
     /\ \E username \in FeedUsers, letters \in GuessLetters, index \in IndexValues,
           hitMax \in BOOLEAN :
          WosCorrectGuess(username, letters, index, hitMax, NoRecord)
  \/ ProcessDelayElapsed

NextLevelSpec == Init /\ [][NextLevelNext]_vars

(***************************************************************************)
(* Several guesses suspended in their processing delay at a time           *)
(***************************************************************************)
\* number of correct guesses suspended at a time in SettleSpec
MaxQueued == 2

\* a level start, chat messages, correct guesses that arrive while earlier
\* ones are still suspended, and the timers
SettleNext ==
  \/ ConnectToTwitch
  \/ \E username \in ChatUsers, message \in ChatWords : TwitchMessage(username, message)
  \/ \E payload \in StartPayloads : WosGameInitialization(1, payload, NoRecord)
  \/ /\ Len(pendingGuesses) < MaxQueued
     /\ \E username \in FeedUsers, letters \in GuessLetters, index \in IndexValues,
           hitMax \in BOOLEAN :
          CorrectGuessReceived(username, letters, index, hitMax, NoRecord)
  \/ ProcessDelayElapsed

\* a timer that was started fires: while guesses are suspended a timer is
\* due, and the only step of SettleNext that takes a guess out of the
\* suspended ones is ProcessDelayElapsed
SettleSpec == Init /\ [][SettleNext]_vars /\ WF_pendingGuesses(TimerFires)

(***************************************************************************)
(* The correct-word list under any sequence of pushes                      *)
(***************************************************************************)
\* the longest list of correct words built
MaxWords == 4

\* words pushed by updateGameState (resolved from chat) and by
\* logMissingWords (lexicon words followed by '*')
DisplayedWords ==
  { w_sets, w_test, w_tests, <<"T", "e", "s", "t">>,
    <<"s", "e", "t", "s", "*">>, <<"t", "e", "s", "t", "*">> }

\* a call of updateCorrectWordsDisplayed
UpdateCorrectWordsDisplayedCall(word) ==
  /\ Len(currentLevelCorrectWords) < MaxWords
  /\ currentLevelCorrectWords' = updateCorrectWordsDisplayed(currentLevelCorrectWords, word)
  /\ call' = [op |-> "display", word |-> word]
  /\ UNCHANGED <<currentLevel, currentLevelBigWord, currentLevelLetters,
                 currentLevelHiddenLetters, currentLevelFakeLetters, currentLevelSlots,
                 hiddenLetterEl, fakeLetterEl, chatVars, recordVars, envVars,
                 connectionVars, instanceVars, feedCount, chatCount, last>>

WordListNext == \E word \in DisplayedWords : UpdateCorrectWordsDisplayedCall(word)

WordListSpec == Init /\ [][WordListNext]_vars

(***************************************************************************)
(* Properties                                                              *)
(***************************************************************************)
Range(seq) == {seq[i] : i \in DOMAIN seq}

\* the step in which the oldest suspended guess is resolved or dropped
ResolveStep == pendingGuesses # <<>> /\ pendingGuesses' = Tail(pendingGuesses)

\* the step in which a feed event of the given kind is handled
FeedStep(op) == feedCount' = feedCount + 1 /\ last'.op = op

\* the step in which a chat message is delivered
ChatStep == chatCount' = chatCount + 1

\* the chat log holds an entry of the author with as many characters as the guess
LogEntryMatches(g) ==
  /\ toLowerCase(g.username) \in DOMAIN twitchChatLog
  /\ Len(twitchChatLog[toLowerCase(g.username)].message) = Len(g.letters)

\* the entry observed last is of the author and has as many characters as the guess
LastEntryMatches(g) ==
  /\ lastTwitchMessage # <<>>
  /\ toLowerCase(lastTwitchMessage[1].username) = toLowerCase(g.username)
  /\ Len(lastTwitchMessage[1].message) = Len(g.letters)

InSlotBounds(g) == g.index >= 0 /\ g.index < Len(currentLevelSlots)

\* C1: when a guess with a hidden letter '?' and an index inside the slot
\* list is resolved while the chat log holds an entry of its contributor
\* with the length of the guess, the slot at that index gets the entry's
\* text as its word and the event's contributor (as received) as its user,
\* and the text is in the correct-word list.
C1_ResolveWithPlaceholder ==
  [][ResolveStep =>
       LET g      == Head(pendingGuesses)
           author == toLowerCase(g.username)
       IN  (InSeq(g.letters, "?") /\ InSlotBounds(g) /\ LogEntryMatches(g))
           => /\ currentLevelSlots'[g.index + 1].word = twitchChatLog[author].message
              /\ currentLevelSlots'[g.index + 1].user = g.username
              /\ twitchChatLog[author].message \in Range(currentLevelCorrectWords')]_vars

C1_Witness ==
  /\ last.op = "resolve"
  /\ last.source # "miss"
  /\ InSeq(last.guess.letters, "?")
  /\ InSlotBounds(last.guess)
  /\ currentLevelSlots[last.guess.index + 1].word = last.word
  /\ currentLevelSlots[last.guess.index + 1].user = u_Abe
  /\ ~InSeq(last.word, "?")
  /\ last.word \in Range(currentLevelCorrectWords)

\* C2 (as the program behaves): a guess without '?' and with an index
\* inside the slot list is resolved like one with hidden letters: when the
\* chat log holds an entry of its contributor with the length of the guess,
\* the slot gets that entry's text and the event's contributor; when it
\* holds none, the slots are left as they were.
C2_PlainGuessResolvedFromChat ==
  [][ResolveStep =>
       LET g      == Head(pendingGuesses)
           author == toLowerCase(g.username)
       IN  (~InSeq(g.letters, "?") /\ InSlotBounds(g))
           => IF LogEntryMatches(g)
              THEN /\ currentLevelSlots'[g.index + 1].word = twitchChatLog[author].message
                   /\ currentLevelSlots'[g.index + 1].user = g.username
              ELSE currentLevelSlots' = currentLevelSlots]_vars

\* C2 as stated: a guess without '?' resolves its slot to the word spelled
\* by its own letters, with its contributor, whatever the chat log holds.
C2_PlainGuessKeepsOwnLetters ==
  [][ResolveStep =>
       LET g == Head(pendingGuesses)
       IN  (~InSeq(g.letters, "?") /\ InSlotBounds(g))
           => /\ currentLevelSlots'[g.index + 1].word = g.letters
              /\ currentLevelSlots'[g.index + 1].user = g.username]_vars

C2_Witness ==
  /\ last.op = "resolve"
  /\ last.source # "miss"
  /\ ~InSeq(last.guess.letters, "?")
  /\ InSlotBounds(last.guess)
  /\ last.word # last.guess.letters
  /\ currentLevelSlots[last.guess.index + 1].word = last.word
  /\ currentLevelSlots[last.guess.index + 1].user = last.guess.username

\* C3 as stated: the text written for a guess is the entry observed last
\* when its author is the contributor and its length is the length of the
\* slot at the index, otherwise the contributor's own entry when that has
\* the slot's length; in every other case nothing is written into the slot.
C3_LengthOfSlotDecides ==
  [][ResolveStep =>
       LET g      == Head(pendingGuesses)
           author == toLowerCase(g.username)
           i      == g.index + 1
       IN  InSlotBounds(g)
           => LET n      == currentLevelSlots[i].length
                  lastOk == /\ lastTwitchMessage # <<>>
                            /\ toLowerCase(lastTwitchMessage[1].username) = author
                            /\ Len(lastTwitchMessage[1].message) = n
                  logOk  == /\ author \in DOMAIN twitchChatLog
                            /\ Len(twitchChatLog[author].message) = n
              IN  IF lastOk
                  THEN currentLevelSlots'[i].word = lastTwitchMessage[1].message
                  ELSE IF logOk
                       THEN currentLevelSlots'[i].word = twitchChatLog[author].message
                       ELSE currentLevelSlots'[i] = currentLevelSlots[i]]_vars

\* C4: when a guess is attempted and neither the entry observed last nor
\* the contributor's own entry matches it, the slots, the correct-word
\* list, the defining word, the level letters and the hidden letters keep
\* their values and the guess is no longer waiting; a chat message never
\* changes the slots, the correct-word list or the waiting guesses.
C4_CorrelationMiss ==
  [][/\ ResolveStep
        => LET g == Head(pendingGuesses)
           IN  (~LastEntryMatches(g) /\ ~LogEntryMatches(g))
               => /\ UNCHANGED <<currentLevelSlots, currentLevelCorrectWords,
                                 currentLevelBigWord, currentLevelLetters,
                                 currentLevelHiddenLetters, hiddenLetterEl>>
                  /\ pendingGuesses' = Tail(pendingGuesses)
     /\ ChatStep
        => UNCHANGED <<currentLevelSlots, currentLevelCorrectWords, pendingGuesses>>]_vars

C4_Witness ==
  /\ last.op = "resolve"
  /\ last.source = "miss"
  /\ InSlotBounds(last.guess)
  /\ currentLevelSlots[last.guess.index + 1].user = <<>>
  /\ currentLevelCorrectWords = <<>>
  /\ pendingGuesses = <<>>

\* C5 as stated: while a correct guess waits for its processing delay, no
\* feed event that arrives later changes the level state, the chat state or
\* the records.
C5_NoFeedEventOvertakesGuess ==
  [][(pendingGuesses # <<>> /\ feedCount' = feedCount + 1)
       => UNCHANGED <<levelVars, chatVars, dailyBest, dailyClears>>]_vars

\* C6 as stated: every chat message delivered after construction is
\* recorded as the last entry and as the entry of its author.
C6_ChatAlwaysRecorded ==
  last.op = "chat"
    => /\ lastTwitchMessage = <<[username |-> last.username, message |-> last.message,
                                 timestamp |-> last.timestamp]>>
       /\ last.username \in DOMAIN twitchChatLog
       /\ twitchChatLog[last.username] =
            [message |-> last.message, timestamp |-> last.timestamp]

\* C7: a level-start event (type 1) leaves the correct-word list, the
\* defining word, the chat log, the last chat entry and the hidden and fake
\* letter sets empty and installs the payload's slots and letters; a
\* game-connected event (type 12) installs the payload's slots, level and
\* non-empty letters and leaves the correct-word list, the defining word,
\* the chat log, the last chat entry and the hidden and fake letter sets
\* as they were.
C7_StartClearsConnectPreserves ==
  [][FeedStep("init") =>
       LET payload == last'.payload
       IN  /\ last'.type = 1
              => /\ currentLevelCorrectWords' = <<>>
                 /\ currentLevelBigWord' = <<>>
                 /\ twitchChatLog' = EmptyMap
                 /\ lastTwitchMessage' = <<>>
                 /\ currentLevelHiddenLetters' = <<>>
                 /\ currentLevelFakeLetters' = <<>>
                 /\ currentLevelSlots' = payload.slots
                 /\ currentLevelLetters' = payload.letters
           /\ last'.type = 12
              => /\ currentLevelSlots' = payload.slots
                 /\ currentLevel' = payload.level
                 /\ (payload.letters # <<>> => currentLevelLetters' = payload.letters)
                 /\ UNCHANGED <<currentLevelCorrectWords, currentLevelBigWord,
                                twitchChatLog, lastTwitchMessage,
                                currentLevelHiddenLetters, currentLevelFakeLetters>>]_vars

C7_Witness ==
  /\ last.op = "init"
  /\ last.type = 12
  /\ currentLevelCorrectWords # <<>>
  /\ currentLevelBigWord # <<>>
  /\ twitchChatLog # EmptyMap
  /\ lastTwitchMessage # <<>>
  /\ currentLevelSlots = last.payload.slots

\* C8: a level-results event with N stars raises the level counter by
\* exactly N, and afterwards the daily best is the larger of the previous
\* daily best and the new level counter.
C8_LevelAdvancesByStars ==
  [][FeedStep("results") =>
       /\ currentLevel' = currentLevel + last'.stars
       /\ dailyBest' = Max(dailyBest, currentLevel')]_vars

C8_Witness ==
  /\ last.op = "results"
  /\ last.stars = 3
  /\ currentLevel = 4
  /\ dailyBest = 5

\* C9 (as the program behaves): a level-results event raises the daily
\* clear counter by exactly 1 when the stars are 5 or every slot has a
\* contributor, and stores the new count when the channel's storage key has
\* been set (without a key the stored count stays as it was); in every
\* other case the counter is unchanged and the missing-word inference is
\* run on the correct-word list.
C9_ClearCountedAndStoredUnderKey ==
  [][FeedStep("results") =>
       IF \/ last'.stars = 5
          \/ \A i \in DOMAIN currentLevelSlots : currentLevelSlots[i].user # <<>>
       THEN /\ dailyClears' = dailyClears + 1
            /\ localStorage'.clears =
                 IF storageKeysSet THEN dailyClears' ELSE localStorage.clears
       ELSE /\ dailyClears' = dailyClears
            /\ localStorage'.clears = localStorage.clears
            /\ currentLevelCorrectWords' = logMissingWords]_vars

\* C9 as stated: the raised counter is always stored.
C9_ClearCountedAndStored ==
  [][FeedStep("results") =>
       IF \/ last'.stars = 5
          \/ \A i \in DOMAIN currentLevelSlots : currentLevelSlots[i].user # <<>>
       THEN /\ dailyClears' = dailyClears + 1
            /\ localStorage'.clears = dailyClears'
       ELSE /\ dailyClears' = dailyClears
            /\ currentLevelCorrectWords' = logMissingWords]_vars

C9_Witness ==
  /\ last.op = "results"
  /\ last.stars = 3
  /\ currentLevelSlots # <<>>
  /\ \A i \in DOMAIN currentLevelSlots : currentLevelSlots[i].user # <<>>
  /\ storageKeysSet
  /\ dailyClears = 2
  /\ localStorage.clears = 2

\* every slot of a non-empty slot list was filled by a correct guess
AllSlotsResolvedByGuesses ==
  /\ currentLevelSlots # <<>>
  /\ \A i \in DOMAIN currentLevelSlots :
       currentLevelSlots[i].user \in FeedUsers /\ currentLevelSlots[i].word # <<>>

\* C10 (as the program behaves): when every slot has been resolved by
\* correct guesses, a defining word has been recorded and a level-results
\* event reports 5 stars, the daily clear counter rises by exactly 1 and
\* saveBoard is called exactly once, with the last slot's word as board id.
C10_ClearSavesBoardWhenBigWordKnown ==
  [][FeedStep("results") =>
       ((last'.stars = 5 /\ AllSlotsResolvedByGuesses /\ currentLevelBigWord # <<>>)
        => /\ dailyClears' = dailyClears + 1
           /\ Len(saveBoardCalls') = Len(saveBoardCalls) + 1
           /\ saveBoardCalls'[Len(saveBoardCalls')].boardId =
                currentLevelSlots[Len(currentLevelSlots)].word)]_vars

\* C10 as stated: the same without a defining word being required.
C10_ClearSavesBoard ==
  [][FeedStep("results") =>
       ((last'.stars = 5 /\ AllSlotsResolvedByGuesses)
        => /\ dailyClears' = dailyClears + 1
           /\ Len(saveBoardCalls') = Len(saveBoardCalls) + 1
           /\ saveBoardCalls'[Len(saveBoardCalls')].boardId =
                currentLevelSlots[Len(currentLevelSlots)].word)]_vars

C10_Witness ==
  /\ last.op = "results"
  /\ last.stars = 5
  /\ last.saved
  /\ AllSlotsResolvedByGuesses
  /\ Len(saveBoardCalls) = 1
  /\ saveBoardCalls[1].boardId = currentLevelSlots[Len(currentLevelSlots)].word
  /\ saveBoardCalls[1].posted
  /\ dailyClears >= 1

\* the arguments of a saveBoard call pass every check of saveBoard
ValidSaveArguments(boardId, slots) ==
  /\ IsUpperLetters(toUpperCase(StripSpaces(boardId)))
  /\ Len(StripSpaces(boardId)) >= MinBoardIdLen
  /\ Len(StripSpaces(boardId)) <= MaxBoardIdLen
  /\ \A i \in DOMAIN slots :
       /\ slots[i].word # <<>>
       /\ ~InSeq(slots[i].letters, ".")
       /\ ~InSeq(slots[i].letters, "?")

\* C11 as stated: every call of saveBoard made by handleLevelResults has
\* valid arguments: a board id of 4 to 20 letters once normalised, and
\* slots that all have a word and no '.' or '?' among their letters.
C11_SaveArgumentsValid ==
  \A i \in DOMAIN saveBoardCalls :
    ValidSaveArguments(saveBoardCalls[i].boardId, saveBoardCalls[i].slots)

C13_OutOfBoundsGuessSkipped ==
  [][ResolveStep =>
       LET g == Head(pendingGuesses)
       IN  ~InSlotBounds(g) =>
             UNCHANGED <<currentLevelSlots, currentLevelCorrectWords, currentLevelBigWord,
                         currentLevelLetters, currentLevelHiddenLetters>>]_vars

\* C13: a correct guess whose positionIndex is outside the slots changes no
\* slot; when a chat entry of the contributor matches, its word is still
\* added to the correct words and, with hitMax, becomes the big word; when
\* no entry matches nothing of the level changes.
C13_OutOfBoundsGuessKeepsSlots ==
  [][ResolveStep =>
       LET g == Head(pendingGuesses)
           word == ResolvedWord(g.username, g.letters)
       IN  ~InSlotBounds(g) =>
             /\ currentLevelSlots' = currentLevelSlots
             /\ IF MatchesLastMessage(g.username, g.letters)
                   \/ MatchesChatLog(g.username, g.letters)
                THEN /\ Len(currentLevelCorrectWords') = Len(currentLevelCorrectWords) + 1
                     /\ word \in Range(currentLevelCorrectWords')
                     /\ g.hitMax => currentLevelBigWord' = toUpperCase(JoinSpace(word))
                     /\ ~g.hitMax => currentLevelBigWord' = currentLevelBigWord
                ELSE UNCHANGED levelVars]_vars

C13_Witness ==
  /\ last.op = "resolve"
  /\ last.word # <<>>
  /\ last.guess.hitMax
  /\ currentLevelSlots # <<>>
  /\ last.guess.index >= Len(currentLevelSlots)
  /\ last.word \in Range(currentLevelCorrectWords)
  /\ currentLevelBigWord = toUpperCase(JoinSpace(last.word))
  /\ \A i \in DOMAIN currentLevelSlots : currentLevelSlots[i].user = <<>>

\* C14: a letters-revealed event changes the level letters only while the
\* big word is unknown: then the fake letters are gone, the hidden letters
\* are added and no '?' is left; when the big word is known the letters
\* stay as they were. The big word, the slots and the correct words are
\* never changed by the event.
C14_RevealUpdatesLettersWithoutBigWord ==
  [][FeedStep("reveal") =>
       LET hidden == last'.hiddenLetters
           fake   == last'.falseLetters
           chars  == Range(currentLevelLetters) \cup Range(hidden)
                       \cup Range(currentLevelLetters')
       IN  /\ currentLevelBigWord = <<>> =>
                \A c \in chars :
                  CountOf(currentLevelLetters', c) =
                    IF c = "?" THEN 0
                    ELSE (IF c \in Range(fake) THEN 0 ELSE CountOf(currentLevelLetters, c))
                         + CountOf(hidden, c)
           /\ currentLevelBigWord # <<>> => currentLevelLetters' = currentLevelLetters
           /\ UNCHANGED <<currentLevelBigWord, currentLevelSlots,
                          currentLevelCorrectWords>>]_vars

C14_Witness ==
  /\ last.op = "reveal"
  /\ currentLevelBigWord = <<>>
  /\ last.falseLetters = <<"x">>
  /\ last.hiddenLetters = <<"s">>
  /\ currentLevelLetters = <<"s", "e", "t", "s">>
  /\ currentLevelSlots # <<>>

\* a word fits slot i of the board: it has the slot's length and lies
\* strictly between the words of the nearest resolved slots on both sides
FitsUnresolvedSlot(word, slots, i) ==
  LET before == {j \in 1..(i - 1) : slots[j].user # <<>>}
      after  == {j \in (i + 1)..Len(slots) : slots[j].user # <<>>}
      lower  == CHOOSE j \in before : \A k \in before : k <= j
      upper  == CHOOSE j \in after : \A k \in after : j <= k
  IN  /\ slots[i].user = <<>>
      /\ Len(slots[i].letters) = Len(word)
      /\ before # {} =>
           localeCompare(toLowerCase(word), toLowerCase(slots[lower].word)) > 0
      /\ after # {} =>
           localeCompare(toLowerCase(word), toLowerCase(slots[upper].word)) < 0

\* C15 as stated: at a level-results event that is not a clear, with slots
\* known, every word added to the correct words as inferred (marked '*')
\* has the length of an unresolved slot and lies strictly between the words
\* of the resolved slots that bound it.
C15_InferenceIsSlotAware ==
  [][FeedStep("results") /\ ~last'.clear /\ currentLevelSlots # <<>> =>
       \A w \in Range(currentLevelCorrectWords') \ Range(currentLevelCorrectWords) :
         endsWithStar(w) =>
           \E i \in DOMAIN currentLevelSlots :
             FitsUnresolvedSlot(ReplaceFirst(w, "*"), currentLevelSlots, i)]_vars

\* every character of `word` occurs in `letters` at least as often as in `word`
Formable(word, letters) ==
  \A c \in Range(word) : CountOf(word, c) <= CountOf(letters, c)

\* `words` holds no word twice and no word before a longer one
DistinctLongestFirst(words) ==
  /\ \A i, j \in DOMAIN words : i # j => words[i] # words[j]
  /\ \A i, j \in DOMAIN words : i < j => Len(words[i]) >= Len(words[j])

\* C16: a search without a length returns, folded to lower case, exactly
\* the words of the lexicon longer than 3 whose every character occurs in
\* the letters often enough, whatever the order of the letters and whatever
\* letters stay unused; each word once, no word before a longer one.
C16_SearchWithoutLength ==
  (call.op = "search" /\ call.loaded /\ call.length = NoLength) =>
    /\ \A i \in DOMAIN call.dict :
         (Formable(toLowerCase(call.dict[i]), toLowerCase(call.letters))
            /\ Len(call.dict[i]) > 3)
         <=> toLowerCase(call.dict[i]) \in Range(call.out.words)
    /\ \A w \in Range(call.out.words) :
         \E i \in DOMAIN call.dict : toLowerCase(call.dict[i]) = w
    /\ DistinctLongestFirst(call.out.words)

C16_Witness ==
  /\ call.op = "search" /\ call.loaded /\ call.length = NoLength
  /\ call.dict = MixedLexicon
  /\ call.letters = <<"T", "E", "S", "T", "S">>
  /\ call.out.words = <<w_tests, w_test, w_sets>>

C18_SearchNeverFails ==
  (last.op \in {"results", "end"} /\ last.inference) => ~last.threw

RECURSIVE GroupMembers(_)
\* the member slots of all groups, in order
GroupMembers(groups) ==
  IF groups = <<>> THEN <<>> ELSE Head(groups).slots \o GroupMembers(Tail(groups))

\* positions of the slots without a contributor, in order
RECURSIVE PositionsWithoutUser(_, _)
PositionsWithoutUser(slots, k) ==
  IF k > Len(slots) THEN <<>>
  ELSE IF slots[k].user = <<>> THEN <<k>> \o PositionsWithoutUser(slots, k + 1)
       ELSE PositionsWithoutUser(slots, k + 1)

\* C19: the member slots of all groups, in order, are exactly the slots
\* without a contributor, in board order; the lower bound of the first group
\* is null if and only if no resolved slot precedes its first member.
C19_GroupsPartitionEmptySlots ==
  call.op = "group" =>
    LET empties == PositionsWithoutUser(call.slots, 1)
        members == GroupMembers(call.out)
    IN  /\ Len(members) = Len(empties)
        /\ \A i \in DOMAIN members :
             /\ members[i].index = call.slots[empties[i]].index
             /\ members[i].length = call.slots[empties[i]].length
        /\ call.out # <<>> =>
             (call.out[1].lowerBoundIndex = NoBound
                <=> ~ \E k \in DOMAIN call.slots :
                        /\ call.slots[k].user # <<>>
                        /\ call.slots[k].index < call.out[1].slots[1].index)

C19_Witness ==
  /\ call.op = "group"
  /\ Len(call.slots) = 4
  /\ Len(call.out) = 2
  /\ call.out[1].lowerBoundIndex = 0
  /\ call.out[1].slots = <<[index |-> 1, length |-> 4]>>
  /\ call.out[2].slots = <<[index |-> 3, length |-> 5]>>

\* the positions (from 0) of the resolved slots of a board
ResolvedPositions(slots) == {k - 1 : k \in {j \in DOMAIN slots : slots[j].user # <<>>}}

\* C20: every group is a run of empty slots at adjacent positions, and two
\* empty slots share a group if and only if every slot between them is
\* empty; the lower bound of a group is the nearest resolved slot before
\* its first member, the upper bound the nearest resolved slot after its
\* last member; a bound is null exactly when the group reaches that edge
\* of the board.
C20_GroupsAreMaximalRunsWithNearestBounds ==
  call.op = "group" =>
    LET groups   == call.out
        resolved == ResolvedPositions(call.slots)
        GroupOf(p) == CHOOSE g \in DOMAIN groups :
                        \E m \in DOMAIN groups[g].slots : groups[g].slots[m].index = p
        empty    == {p \in 0..(Len(call.slots) - 1) : p \notin resolved}
    IN  /\ \A g \in DOMAIN groups :
             LET members == groups[g].slots
                 first   == members[1].index
                 final   == members[Len(members)].index
                 before  == {p \in resolved : p < first}
                 after   == {p \in resolved : p > final}
             IN  /\ \A m \in 1..(Len(members) - 1) :
                      members[m + 1].index = members[m].index + 1
                 /\ groups[g].lowerBoundIndex =
                      IF before = {} THEN NoBound
                      ELSE CHOOSE p \in before : \A q \in before : q <= p
                 /\ groups[g].upperBoundIndex =
                      IF after = {} THEN NoBound
                      ELSE CHOOSE p \in after : \A q \in after : p <= q
                 /\ groups[g].lowerBoundIndex = NoBound <=> first = 0
                 /\ groups[g].upperBoundIndex = NoBound <=> final = Len(call.slots) - 1
        /\ \A p, q \in empty :
             p < q => (GroupOf(p) = GroupOf(q) <=> \A r \in p..q : r \in empty)

C20_Witness ==
  /\ call.op = "group"
  /\ Len(call.slots) = 4
  /\ Len(call.out) = 2
  /\ Len(call.out[1].slots) = 2
  /\ call.out[1].lowerBoundIndex = NoBound
  /\ call.out[1].upperBoundIndex = 2
  /\ call.out[2].lowerBoundIndex = 2
  /\ call.out[2].upperBoundIndex = NoBound

\* word a comes strictly before word b in the dictionary order of the
\* folded letters
StrictlyBefore(a, b) ==
  LET x == toLowerCase(a)
      y == toLowerCase(b)
  IN  \E k \in 1..Len(y) :
        /\ \A j \in 1..(k - 1) : j <= Len(x) /\ x[j] = y[j]
        /\ \/ k = Len(x) + 1
           \/ k <= Len(x) /\ PosIn(LowerAlpha, x[k]) < PosIn(LowerAlpha, y[k])

\* C21: wordFitsAlphabetically(w, lo, hi) is true exactly when lo is null
\* or w comes strictly after lo, and hi is null or w comes strictly before
\* hi, letter case ignored; so it is true without bounds and false when a
\* bound is w itself.
C21_FitsStrictlyBetweenBounds ==
  call.op = "fits" =>
    /\ call.out <=>
         /\ call.lowerBound = NullWord \/ StrictlyBefore(call.lowerBound, call.word)
         /\ call.upperBound = NullWord \/ StrictlyBefore(call.word, call.upperBound)
    /\ (call.lowerBound = NullWord /\ call.upperBound = NullWord) => call.out
    /\ (call.lowerBound = call.word \/ call.upperBound = call.word) => ~call.out

C21_Witness ==
  /\ call.op = "fits"
  /\ call.word = <<"T", "E", "S", "T">>
  /\ call.lowerBound = <<"S", "e", "t", "s">>
  /\ call.upperBound = w_tests
  /\ call.out

\* word w is a candidate for slot length k of a call of
\* findSlotMatchedMissedWords: a lexicon word formable from the letters, of
\* length k, not among the guessed words ('*' ignored, case folded), and
\* strictly between the bound words
IsCandidate(w, k) ==
  /\ \E i \in DOMAIN call.dict : toLowerCase(call.dict[i]) = w
  /\ Formable(w, toLowerCase(call.availableLetters))
  /\ Len(w) = k
  /\ ~ \E i \in DOMAIN call.correctlyGuessedWords :
         toLowerCase(FilterOut(call.correctlyGuessedWords[i], "*")) = w
  /\ call.lowerBoundWord = NullWord \/ StrictlyBefore(call.lowerBoundWord, w)
  /\ call.upperBoundWord = NullWord \/ StrictlyBefore(w, call.upperBoundWord)

\* C22: findSlotMatchedMissedWords returns, under each slot length k of the
\* group, exactly the lexicon words that are formable from the available
\* letters, have length k, are not among the correct words (markers
\* ignored, case folded) and lie strictly between the bound words.
C22_SlotMatchedCandidates ==
  call.op = "matched" =>
    LET lengths == {call.group.slots[i].length : i \in DOMAIN call.group.slots}
    IN  /\ \A r \in Range(call.out) :
             /\ r.slotLength \in lengths
             /\ \A w \in Range(r.candidates) : IsCandidate(w, r.slotLength)
        /\ \A k \in lengths, i \in DOMAIN call.dict :
             IsCandidate(toLowerCase(call.dict[i]), k) =>
               \E r \in Range(call.out) :
                 r.slotLength = k /\ toLowerCase(call.dict[i]) \in Range(r.candidates)

C22_Witness ==
  /\ call.op = "matched"
  /\ Len(call.group.slots) = 3
  /\ call.lowerBoundWord = <<"S", "E", "T", "S">>
  /\ call.upperBoundWord = NullWord
  /\ call.correctlyGuessedWords = <<<<"S", "E", "T", "S", "*">>>>
  /\ call.out = <<[slotLength |-> 5, candidates |-> <<w_tests>>],
                  [slotLength |-> 4, candidates |-> <<w_test>>]>>

\* word w is missing for a call of findAllMissingWords: a lexicon word
\* formable from the letters that is none of the known words, case folded
IsMissing(w) ==
  /\ \E i \in DOMAIN call.dict : toLowerCase(call.dict[i]) = w
  /\ Formable(w, toLowerCase(call.knownLetters))
  /\ ~ \E i \in DOMAIN call.knownWords : toLowerCase(call.knownWords[i]) = w

\* C23 as stated: findAllMissingWords returns exactly the lexicon words
\* formable from the letters that are longer than 3, not known and not
\* shorter than minLength; no word of length 3 or less is returned.
C23_MissingWordsLongerThanThree ==
  call.op = "missing" =>
    /\ \A w \in Range(call.out) : Len(w) > 3
    /\ \A i \in DOMAIN call.dict :
         LET w == toLowerCase(call.dict[i])
         IN  (IsMissing(w) /\ Len(w) > 3 /\ Len(w) >= call.minLength)
               <=> w \in Range(call.out)

\* entry a of the correct words may stand before entry b: a is shorter
\* (marker not counted), or as long and earlier in the dictionary (case
\* and marker ignored), or of the same text and not the marked one of the two
MayPrecede(a, b) ==
  LET aWord == FilterOut(a, "*")
      bWord == FilterOut(b, "*")
  IN  \/ Len(aWord) < Len(bWord)
      \/ Len(aWord) = Len(bWord) /\ StrictlyBefore(aWord, bWord)
      \/ /\ toLowerCase(aWord) = toLowerCase(bWord)
         /\ endsWithStar(a) => endsWithStar(b)

\* C24: the correct words are always sorted by length (marker not counted),
\* then by the dictionary order of the folded letters (marker ignored), and
\* of two entries with the same text the unmarked one comes first.
C24_CorrectWordsSorted ==
  \A i, j \in DOMAIN currentLevelCorrectWords :
    i < j => MayPrecede(currentLevelCorrectWords[i], currentLevelCorrectWords[j])

C24_Witness ==
  /\ call.op = "display"
  /\ call.word = w_sets
  /\ currentLevelCorrectWords =
       <<w_sets, <<"s", "e", "t", "s", "*">>, <<"T", "e", "s", "t">>, w_tests>>

DisconnectStep == disconnectCalls' = disconnectCalls + 1

\* C25: a call of disconnect or disconnectTwitch never raises and changes
\* nothing but the handle of its own stream, which is null afterwards; on a
\* stream already disconnected it changes nothing at all, so that calling
\* twice leaves the state of calling once.  The level, slots, letters,
\* correct words, big word, chat log and records are never changed.
C25_DisconnectIdempotent ==
  [][DisconnectStep =>
       /\ ~last'.raised
       /\ UNCHANGED <<levelVars, chatVars, recordVars, envVars, feedCount, chatCount>>
       /\ last'.op = "disconnect" =>
            /\ wosSocket' = NoHandle
            /\ twitchClient' = twitchClient
            /\ last'.closed <=> wosSocket # NoHandle
       /\ last'.op = "disconnectTwitch" =>
            /\ twitchClient' = NoHandle
            /\ wosSocket' = wosSocket
            /\ last'.closed <=> twitchClient # NoHandle]_vars

C25_Witness ==
  /\ last.op = "disconnectTwitch"
  /\ ~last.closed
  /\ disconnectCalls = 3
  /\ wosSocket = NoHandle
  /\ twitchClient = NoHandle
  /\ twitchChatLog # EmptyMap
  /\ currentLevelSlots # <<>>
  /\ currentLevel = 1
  /\ personalBest = 4

\* an event of a session is delivered
SessionStep == feedCount' # feedCount \/ chatCount' # chatCount

\* C26: with two GameSpectator objects, an event of one object's session
\* changes only that object's state, and a feed event of a session is
\* handled by the object of that session also after the other object was
\* constructed.
C26_InstancesIndependent ==
  [][SessionStep =>
       /\ last'.session = 1 => UNCHANGED otherInstance
       /\ last'.session = 2 => UNCHANGED <<levelVars, chatVars, recordVars>>
       /\ last'.op = "sessionInit" => last'.handledBy = last'.session]_vars

\* C27, for the case it names: a level-results event that reports a clear
\* while a big word is recorded completes without raising, also when the
\* slot list is empty.
C27_ClearNeverRaises ==
  (last.op = "results" /\ last.clear /\ currentLevelBigWord # <<>>) => ~last.threw

\* C28: the chat log holds for every user the most recent message received
\* since the last level start and the last entry is the most recent message
\* of all: every chat message received replaces the entry of its author and
\* the last entry, a level start empties both, and nothing else changes them;
\* the entry of the last entry's author agrees with the last entry.
C28_ChatLogHoldsMostRecent ==
  [][/\ chatCount' # chatCount =>
          /\ lastTwitchMessage' =
               <<[username |-> last'.username, message |-> last'.message,
                  timestamp |-> last'.timestamp]>>
          /\ DOMAIN twitchChatLog' = DOMAIN twitchChatLog \cup {last'.username}
          /\ \A u \in DOMAIN twitchChatLog' :
               twitchChatLog'[u] =
                 IF u = last'.username
                 THEN [message |-> last'.message, timestamp |-> last'.timestamp]
                 ELSE twitchChatLog[u]
     /\ (feedCount' # feedCount /\ last'.op = "init" /\ last'.type = 1) =>
          /\ lastTwitchMessage' = <<>>
          /\ twitchChatLog' = EmptyMap
     /\ (chatCount' = chatCount
           /\ ~(feedCount' # feedCount /\ last'.op = "init" /\ last'.type = 1)) =>
          UNCHANGED chatVars
     /\ lastTwitchMessage' # <<>> =>
          /\ lastTwitchMessage'[1].username \in DOMAIN twitchChatLog'
          /\ twitchChatLog'[lastTwitchMessage'[1].username] =
               [message |-> lastTwitchMessage'[1].message,
                timestamp |-> lastTwitchMessage'[1].timestamp]]_vars

\* C30: between one level-start / game-connected event and the next a slot
\* is written at most once: once a correct guess has resolved a position
\* (its slot names a contributor of the feed; the slots that a payload
\* installs name none or another one), no later correct guess for that
\* position changes the slot's word or contributor.
C30_SlotWrittenAtMostOnce ==
  [][\A i \in 1..Len(currentLevelSlots) :
       (/\ currentLevelSlots[i].user \in FeedUsers \cup {u_bea}
        /\ ResolveStep
        /\ Head(pendingGuesses).index = i - 1)
         => /\ currentLevelSlots'[i].word = currentLevelSlots[i].word
            /\ currentLevelSlots'[i].user = currentLevelSlots[i].user]_vars

\* C31: no two slots of the current board hold the same resolved word, also
\* when a contributor has two correct guesses of one length and no chat
\* message for the second one arrived before it was resolved.
C31_NoDuplicateSlotWords ==
  \A i, j \in 1..Len(currentLevelSlots) :
    (i # j /\ currentLevelSlots[i].word # <<>>)
      => currentLevelSlots[i].word # currentLevelSlots[j].word

\* the letters shown in a letter display ("S T"), folded
Reported(el) == toLowerCase(SplitSpace(el))

\* a guess marked as defining is resolved (not dropped)
DefiningStep == ResolveStep /\ Head(pendingGuesses).hitMax /\ last'.word # <<>>

\* C32: when a resolved guess is marked as defining, its word becomes the
\* big word, a letter is shown as hidden exactly when the big word has more
\* of it than the known letters, and a letter is shown as fake exactly when
\* it is a known letter other than '?' that the big word lacks.
C32_DefiningWordLetters ==
  [][DefiningStep =>
       /\ currentLevelBigWord' = toUpperCase(JoinSpace(last'.word))
       /\ \A c \in Range(LowerAlpha) \cup {"?"} :
            /\ InSeq(Reported(hiddenLetterEl'), c)
                 <=> CountOf(last'.word, c) > CountOf(currentLevelLetters, c)
            /\ InSeq(Reported(fakeLetterEl'), c)
                 <=> (c # "?" /\ InSeq(currentLevelLetters, c) /\ ~InSeq(last'.word, c))]_vars

\* the letters that `word` has more often than the known letters
UnderCounted(word, letters) ==
  {c \in Range(word) : CountOf(word, c) > CountOf(letters, c)}

\* the positions of the known letters, other than '?', that `word` lacks
FakePositions(word, letters) ==
  {i \in DOMAIN letters : letters[i] # "?" /\ ~InSeq(word, letters[i])}

\* C32, amended: when a resolved guess is marked as defining, its word
\* becomes the big word; the hidden display is replaced by the letters that
\* the big word has more often than the known letters, and the fake display
\* by the known letters other than '?' that the big word lacks, each only
\* when that list is not empty and not as long as the known letters;
\* otherwise the display keeps its text.  '?' is never shown as fake.
C32_DefiningWordLettersShown ==
  [][DefiningStep =>
       LET word    == toLowerCase(last'.word)
           hidden  == UnderCounted(word, currentLevelLetters)
           fakeAt  == FakePositions(word, currentLevelLetters)
       IN  /\ currentLevelBigWord' = toUpperCase(JoinSpace(last'.word))
           /\ IF hidden # {} /\ Cardinality(hidden) # Len(currentLevelLetters)
              THEN Range(Reported(hiddenLetterEl')) = hidden
              ELSE hiddenLetterEl' = hiddenLetterEl
           /\ IF fakeAt # {} /\ Cardinality(fakeAt) # Len(currentLevelLetters)
              THEN Range(Reported(fakeLetterEl')) = {currentLevelLetters[i] : i \in fakeAt}
              ELSE fakeLetterEl' = fakeLetterEl
           /\ ~InSeq(Reported(fakeLetterEl'), "?")]_vars

C32_Witness ==
  /\ last.op = "resolve"
  /\ last.guess.hitMax
  /\ last.word = w_tests
  /\ currentLevelLetters = <<"s", "e", "t", "?", "x">>
  /\ currentLevelBigWord = <<"T", " ", "E", " ", "S", " ", "T", " ", "S">>
  /\ hiddenLetterEl = <<"T", " ", "S">>
  /\ fakeLetterEl = <<"X">>

\* a guess not marked as defining is resolved (not dropped) while the
\* hidden display is empty
InferenceStep ==
  ResolveStep /\ ~Head(pendingGuesses).hitMax /\ last'.word # <<>> /\ hiddenLetterEl = <<>>

\* the confirmed correct words (no '*'), folded
Confirmed(words) == {toLowerCase(words[i]) : i \in {k \in DOMAIN words : ~InSeq(words[k], "*")}}

RECURSIVE CumulativeUsage(_, _)
\* the occurrences of a letter in all confirmed correct words together
CumulativeUsage(words, c) ==
  IF words = <<>> THEN 0
  ELSE (IF InSeq(Head(words), "*") THEN 0 ELSE CountOf(toLowerCase(Head(words)), c))
         + CumulativeUsage(Tail(words), c)

\* the largest number of occurrences of a letter in one confirmed correct word
LargestUsage(words, c) ==
  LET counts == {CountOf(w, c) : w \in Confirmed(words)} \cup {0}
  IN  CHOOSE m \in counts : \A n \in counts : n <= m

\* by how much `usage` exceeds the count of the letter in the known letters
Excess(usage, letters, c) ==
  IF usage > CountOf(letters, c) THEN usage - CountOf(letters, c) ELSE 0

\* C33 as stated: after a guess not marked as defining resolves, a letter
\* is inferred as hidden as many times as its usage added up over all
\* confirmed correct words exceeds its count in the known letters.
C33_InferredFromCumulativeUsage ==
  [][InferenceStep =>
       \A c \in Range(LowerAlpha) :
         CountOf(Reported(hiddenLetterEl'), c)
           = Excess(CumulativeUsage(currentLevelCorrectWords', c), currentLevelLetters, c)]_vars

\* C33, amended: after a guess not marked as defining resolves while no
\* hidden letter is displayed, a letter is inferred as hidden as many times
\* as its largest number of occurrences in one confirmed correct word
\* exceeds its count in the known letters.
C33_InferredFromLargestUsage ==
  [][InferenceStep =>
       \A c \in Range(LowerAlpha) :
         CountOf(Reported(hiddenLetterEl'), c)
           = Excess(LargestUsage(currentLevelCorrectWords', c), currentLevelLetters, c)]_vars

C33_Witness ==
  /\ last.op = "resolve"
  /\ ~last.guess.hitMax
  /\ last.word = w_tests
  /\ currentLevelCorrectWords = <<w_sets, w_tests>>
  /\ hiddenLetterEl = <<"T">>

\* C34: an inference step never records more hidden letters than the known
\* letters had '?' placeholders, removes as many '?' as it records hidden
\* letters, and leaves the other placeholders in the known letters when it
\* infers fewer letters than there are placeholders.
C34_PlaceholdersResolvedConservatively ==
  [][ResolveStep =>
       LET placeholders == CountOf(currentLevelLetters, "?")
           recorded == Len(currentLevelHiddenLetters') - Len(currentLevelHiddenLetters)
           removed  == placeholders - CountOf(currentLevelLetters', "?")
           inferred == Len(Reported(hiddenLetterEl'))
       IN  /\ recorded <= placeholders
           /\ removed = recorded
           /\ (InferenceStep /\ inferred < placeholders)
                => CountOf(currentLevelLetters', "?") = placeholders - inferred]_vars

\* the hidden letters recorded by a step
RecordedHidden ==
  SubSeq(currentLevelHiddenLetters', Len(currentLevelHiddenLetters) + 1,
         Len(currentLevelHiddenLetters'))

\* C39: whenever hidden-letter inference removes a '?' from the known
\* letters, the inferred letters take its place: afterwards the known
\* letters hold every letter as often as before plus as often as the step
\* recorded it as hidden.
C39_InferredLettersReplacePlaceholders ==
  [][(ResolveStep /\ CountOf(currentLevelLetters', "?") < CountOf(currentLevelLetters, "?"))
       => \A c \in Range(LowerAlpha) :
            CountOf(currentLevelLetters', c)
              = CountOf(currentLevelLetters, c) + CountOf(RecordedHidden, c)]_vars

\* the step in which level results or a level end run the missing-word
\* inference
MissingInferenceStep == feedCount' = feedCount + 1 /\ last'.op \in {"results", "end"}

\* the words that a step appended with the inferred marker, without it
AppendedInferred ==
  {SubSeq(w, 1, Len(w) - 1) :
     w \in {v \in Range(currentLevelCorrectWords') \ Range(currentLevelCorrectWords) :
              endsWithStar(v)}}

\* C35: no word appended with the inferred marker equals the word of a
\* filled slot of the current board, also after a game-connected event
\* brought filled slots to an empty correct-word list.
C35_InferredWordNotInFilledSlot ==
  [][MissingInferenceStep =>
       \A w \in AppendedInferred :
         \A i \in DOMAIN currentLevelSlots :
           currentLevelSlots[i].user # <<>>
             => toLowerCase(currentLevelSlots[i].word) # toLowerCase(w)]_vars

\* the missing-word inference ran in the step before
InferenceRanLast == last.op \in {"results", "end"} /\ last.inference /\ ~last.threw

\* C36: when the missing-word inference runs a second time with no event
\* in between (level results without a clear, then the level end), the second
\* run appends nothing, and no word is in the correct-word list twice as an
\* inferred entry.
C36_InferenceIdempotent ==
  [][(InferenceRanLast /\ MissingInferenceStep /\ last'.inference)
       => /\ currentLevelCorrectWords' = currentLevelCorrectWords
          /\ \A i, j \in DOMAIN currentLevelCorrectWords' :
               (i # j /\ endsWithStar(currentLevelCorrectWords'[i]))
                 => currentLevelCorrectWords'[i] # currentLevelCorrectWords'[j]]_vars

\* C37: once the channel records were loaded with an all-time best not
\* below the daily best, the all-time best is never below the daily best,
\* also right after level results raised the level and the daily best.
C37_AllTimeBestNotBelowDailyBest ==
  storageKeysSet => personalBest >= dailyBest

\* C38: a correct guess received during one level is never written into
\* the board of the next level: a guess of level 1 that is resolved after
\* level 2 has started changes neither the slots nor the correct-word list,
\* also when its contributor sent a chat message of the same length after
\* the level start.
C38_GuessStaysInItsLevel ==
  [][(ResolveStep /\ currentLevel = 2)
       => UNCHANGED <<currentLevelSlots, currentLevelCorrectWords>>]_vars

\* a suspended guess leaves the waiting guesses
SettleStep == Len(pendingGuesses') < Len(pendingGuesses)

\* the guess settled last was written to the board it names a slot of
AppliedToBoard ==
  /\ last'.word # <<>>
  /\ last'.word \in Range(currentLevelCorrectWords')
  /\ (last'.guess.index >= 0 /\ last'.guess.index < Len(currentLevelSlots)
        => /\ currentLevelSlots'[last'.guess.index + 1].word = last'.word
           /\ currentLevelSlots'[last'.guess.index + 1].user = last'.guess.username)

\* the guess settled last was dropped
DroppedAsMiss == last'.source = "miss" /\ last'.word = <<>> /\ UNCHANGED levelVars

\* C40: the guess that leaves the waiting guesses is the one received
\* first, and it is either applied (its word is in the correct-word list
\* and, when its index is on the board, in that slot) or dropped without a
\* change of the level state; in every other step the waiting guesses stay
\* or one guess is added behind them; and when the timers are scheduled
\* fairly, waiting guesses are eventually followed by a state in which no
\* guess waits, so that no guess waits forever.
C40_GuessesSettledInOrder ==
  /\ [][SettleStep => /\ pendingGuesses' = Tail(pendingGuesses)
                      /\ last'.op = "resolve"
                      /\ last'.guess = Head(pendingGuesses)
                      /\ (AppliedToBoard \/ DroppedAsMiss)]_vars
  /\ [][~SettleStep => \/ pendingGuesses' = pendingGuesses
                       \/ /\ Len(pendingGuesses') = Len(pendingGuesses) + 1
                          /\ SubSeq(pendingGuesses', 1, Len(pendingGuesses)) = pendingGuesses]_vars
  /\ (pendingGuesses # <<>>) ~> (pendingGuesses = <<>>)

\* the older of two different waiting guesses was applied, the newer waits
C40_Witness ==
  /\ last.op = "resolve"
  /\ last.word # <<>>
  /\ Len(pendingGuesses) = 1
  /\ pendingGuesses[1] # last.guess

====
